---- MODULE Spec2Model ----
(***************************************************************************)
(* A model of the Metigan client library: the sliding-window RateLimiter,  *)
(* the usage logger (MetiganLogger) with its batched flush, and the        *)
(* retry-capable request executors of the Email, Forms, Contacts,          *)
(* Audiences and Templates modules.                                        *)
(*                                                                         *)
(* Specifications:                                                         *)
(*   SpecRL      the RateLimiter class alone, driven by its five methods   *)
(*               and a clock;                                              *)
(*   SpecLog     the MetiganLogger class alone (log, enable, disable, the  *)
(*               1-second timer, the flush with its retries);              *)
(*   FairSpecLog SpecLog with the fairness the event loop provides;        *)
(*   Spec        a client built with enableRateLimit: false: one logical   *)
(*               operation at a time on any module, with the usage logger  *)
(*               of the Email module running beside it;                    *)
(*   SpecClients the constructors and the instances they build, with the   *)
(*               objects each instance holds;                              *)
(*   SpecGate    one rate-limited Email instance and its send operations,  *)
(*               while the clock runs;                                     *)
(*   SpecCalls   concurrent sendEmail calls on that instance, interleaved  *)
(*               at their awaits;                                          *)
(*   SpecDebug   instances built with and without debug: true, and their   *)
(*               enableDebug() / disableDebug() calls;                     *)
(*   SpecExec    the timeout and the backoff waits of each module's        *)
(*               executor;                                                 *)
(*   SpecText    the sanitizers and the e-mail shape checks;               *)
(*   SpecPayload the payload the send operations build from their options. *)
(***************************************************************************)
EXTENDS Integers, Sequences, FiniteSets, TLC

----------------------------------------------------------------------------
(* Bounds of the model *)

MaxTime == 5
MaxStep == 2
MaxWindowMs == 3
MaxMaxRequests == 2
MaxRecorded == 4
MaxResets == 2
MaxLogs == 3
MaxCalls == 2
MaxRetryCount == 2

VARIABLES
    now,            \* Date.now()
    rlEnabled,      \* Metigan.rateLimiter is not null
    requests,       \* RateLimiter.requests
    maxRequests,    \* RateLimiter.maxRequests
    windowMs,       \* RateLimiter.windowMs
    rlRet,          \* value returned by the last RateLimiter call
    granted,        \* history: times of the grants still inside the trailing window
    grantedSinceReset, \* history: the same, emptied by reset()
    resets          \* history: number of reset() calls

rlVars == <<now, rlEnabled, requests, maxRequests, windowMs, rlRet, granted, grantedSinceReset, resets>>

VARIABLES
    disabled,           \* MetiganLogger.disabled
    pendingLogs,        \* MetiganLogger.pendingLogs
    isBatchProcessing,  \* MetiganLogger.isBatchProcessing
    batchTimeout,       \* MetiganLogger.batchTimeout is not null
    timerArmed,         \* the setTimeout behind batchTimeout has not fired or been cleared
    flushPc,            \* processBatch: "idle", "sending" (axios.post in flight), "backoff"
    flushAttempt,       \* MetiganLogger._makeRequestWithRetry: attempt
    logBatch,           \* processBatch: logBatch
    execResult,         \* how the last MetiganLogger._makeRequestWithRetry settled
    flushResult,        \* how the last processBatch promise settled
    logCount,           \* history: number of direct log() calls
    httpLog             \* history: the HTTP requests issued, by originating call

logVars == <<disabled, pendingLogs, isBatchProcessing, batchTimeout, timerArmed,
             flushPc, flushAttempt, logBatch, execResult, flushResult, logCount, httpLog>>

VARIABLES
    retryCount,     \* this.retryCount of the module instances
    callId,         \* history: number of operations started
    op,             \* the operation in progress: module, kind, outcome of its input checks
    opPc,           \* "idle", "inflight" (transport call pending), "backoff", "done"
    attempt,        \* makeRequest / _makeRequestWithRetry: attempt
    attempts,       \* history: transport calls issued by the operation
    waits,          \* history: backoff waits started by the operation
    lastError,      \* the envelope caught on the last failed attempt
    observed,       \* history: the last envelope that carried a status
    outcomes,       \* history: the class of each transport outcome of the operation
    rejected,       \* history: the calls whose input checks failed
    result          \* what the operation returned or raised

opVars == <<retryCount, callId, op, opPc, attempt, attempts, waits, lastError, observed,
           outcomes, rejected, result>>

VARIABLES
    fn,             \* the function or operation applied to an input
    arg,            \* its input
    ret             \* what it returned, raised or transmitted

callVars == <<fn, arg, ret>>

VARIABLES
    clients,        \* the client instances built so far, with the objects they hold
    limiterHeap,    \* the RateLimiter objects, by identity
    loggerHeap,     \* the MetiganLogger objects, by identity
    sends,          \* history: number of send operations called on the instances
    debugLogger,    \* the module-level debugLogger of metigan.ts: null, or the one DebugLogger
    calls,          \* the sendEmail calls made on the instances, each with the place it is at
    running         \* the call whose synchronous code is running, 0 when none is

heapVars == <<clients, limiterHeap, loggerHeap, sends, debugLogger, calls, running>>

vars == <<rlVars, logVars, opVars, callVars, heapVars>>

----------------------------------------------------------------------------
(* RateLimiter *)

Min(S) == CHOOSE x \in S : \A y \in S : x <= y

Max(a, b) == IF a >= b THEN a ELSE b

Range(s) == {s[i] : i \in DOMAIN s}

\* this.requests.filter(time => now - time < this.windowMs)
Prune(reqs, t) == SelectSeq(reqs, LAMBDA time : t - time < windowMs)

\* mutant of UnderLimit: <= in place of <
UnderLimitOffByOne(reqs) == Len(reqs) <= maxRequests

\* this.requests.length < this.maxRequests, after the filter
UnderLimit(reqs) == Len(reqs) < maxRequests

\* the entries of a history that lie in the trailing window (t - windowMs, t]
InWindow(hist, t) == SelectSeq(hist, LAMBDA time : t - time < windowMs)

RlReturn(name, ok, wait) == [call |-> name, ok |-> ok, wait |-> wait]

InitRateLimiter ==
    /\ now = 0
    /\ rlEnabled = TRUE
    /\ requests = <<>>
    /\ maxRequests \in 1..MaxMaxRequests
    /\ windowMs \in 1..MaxWindowMs
    /\ rlRet = RlReturn("none", FALSE, 0)
    /\ granted = <<>>
    /\ grantedSinceReset = <<>>
    /\ resets = 0

\* the clock advances; the histories keep only what a trailing window can hold
Tick ==
    /\ \E d \in 1..MaxStep :
        /\ now + d <= MaxTime
        /\ now' = now + d
    /\ granted' = InWindow(granted, now')
    /\ grantedSinceReset' = InWindow(grantedSinceReset, now')
    /\ UNCHANGED <<rlEnabled, requests, maxRequests, windowMs, rlRet, resets>>
    /\ UNCHANGED <<logVars, opVars, callVars, heapVars>>

CanMakeRequest ==
    /\ requests' = Prune(requests, now)
    /\ rlRet' = RlReturn("canMakeRequest", UnderLimit(requests'), 0)
    /\ UNCHANGED <<rlEnabled, now, maxRequests, windowMs, granted, grantedSinceReset, resets>>
    /\ UNCHANGED <<logVars, opVars, callVars, heapVars>>

RecordRequest ==
    /\ Len(requests) < MaxRecorded
    /\ requests' = Append(requests, now)
    /\ rlRet' = RlReturn("recordRequest", FALSE, 0)
    /\ UNCHANGED <<rlEnabled, now, maxRequests, windowMs, granted, grantedSinceReset, resets>>
    /\ UNCHANGED <<logVars, opVars, callVars, heapVars>>

TryRequest ==
    /\ LET pruned == Prune(requests, now)
           ok == UnderLimit(pruned)
       IN  /\ requests' = IF ok THEN Append(pruned, now) ELSE pruned
           /\ rlRet' = RlReturn("tryRequest", ok, 0)
           /\ granted' = IF ok THEN Append(granted, now) ELSE granted
           /\ grantedSinceReset' =
                IF ok THEN Append(grantedSinceReset, now) ELSE grantedSinceReset
    /\ UNCHANGED <<rlEnabled, now, maxRequests, windowMs, resets>>
    /\ UNCHANGED <<logVars, opVars, callVars, heapVars>>

GetTimeUntilNextRequest ==
    /\ LET pruned == Prune(requests, now)
       IN  /\ requests' = pruned
           /\ rlRet' = IF UnderLimit(pruned)
                       THEN RlReturn("getTimeUntilNextRequest", TRUE, 0)
                       ELSE RlReturn("getTimeUntilNextRequest", FALSE,
                                     Max(0, windowMs - (now - Min(Range(pruned)))))
    /\ UNCHANGED <<rlEnabled, now, maxRequests, windowMs, granted, grantedSinceReset, resets>>
    /\ UNCHANGED <<logVars, opVars, callVars, heapVars>>

Reset ==
    /\ resets < MaxResets
    /\ requests' = <<>>
    /\ grantedSinceReset' = <<>>
    /\ resets' = resets + 1
    /\ rlRet' = RlReturn("reset", FALSE, 0)
    /\ UNCHANGED <<rlEnabled, now, maxRequests, windowMs, granted>>
    /\ UNCHANGED <<logVars, opVars, callVars, heapVars>>

----------------------------------------------------------------------------
(* MetiganLogger *)

\* private retryCount: number = 3
LoggerRetryCount == 3

\* what axios.post to /api/logs can end with: 200, a response with an error
\* status, or 0 for no response (network error, timeout)
TelemetryOutcomes == {200, 401, 403, 500, 0}

LogEntry(endpoint, status, call) ==
    [endpoint |-> endpoint, status |-> status, method |-> "POST", call |-> call]

\* the fields of the logger that log() and scheduleBatchProcessing() touch
LoggerState ==
    [disabled |-> disabled, pendingLogs |-> pendingLogs,
     batchTimeout |-> batchTimeout, timerArmed |-> timerArmed]

SetLogger(L) ==
    /\ disabled' = L.disabled
    /\ pendingLogs' = L.pendingLogs
    /\ batchTimeout' = L.batchTimeout
    /\ timerArmed' = L.timerArmed

\* scheduleBatchProcessing()
ScheduleBatchProcessing(L) ==
    IF ~L.batchTimeout /\ ~L.disabled
    THEN [L EXCEPT !.batchTimeout = TRUE, !.timerArmed = TRUE]
    ELSE L

\* mutant of LoggerLog: the entry is enqueued whether or not the logger is disabled
LoggerLogWhenDisabled(L, e) ==
    ScheduleBatchProcessing([L EXCEPT !.pendingLogs = Append(L.pendingLogs, e)])

\* log(endpoint, status, method)
LoggerLog(L, e) ==
    IF L.disabled
    THEN L
    ELSE ScheduleBatchProcessing([L EXCEPT !.pendingLogs = Append(L.pendingLogs, e)])

\* log() never throws: its promise always resolves
LogSettles(L) == "resolved"

\* the requests a POST of batch b to /api/logs stands for, by originating call
TelemetryRequests(b) == {[call |-> b[i].call, target |-> "logs"] : i \in DOMAIN b}

InitLogger ==
    /\ disabled \in BOOLEAN
    /\ pendingLogs = <<>>
    /\ isBatchProcessing = FALSE
    /\ batchTimeout = FALSE
    /\ timerArmed = FALSE
    /\ flushPc = "idle"
    /\ flushAttempt = 0
    /\ logBatch = <<>>
    /\ execResult = "none"
    /\ flushResult = "none"
    /\ logCount = 0
    /\ httpLog = {}

\* a direct call of log()
Log ==
    /\ logCount < MaxLogs
    /\ \E endpoint \in {"/email/send", "/email/send/error"}, status \in {200, 500} :
        SetLogger(LoggerLog(LoggerState, LogEntry(endpoint, status, 0)))
    /\ logCount' = logCount + 1
    /\ UNCHANGED <<isBatchProcessing, flushPc, flushAttempt, logBatch, execResult, flushResult, httpLog>>
    /\ UNCHANGED <<rlVars, opVars, callVars, heapVars>>

\* disable(): this.disabled = true; clearPendingLogs()
Disable ==
    /\ disabled' = TRUE
    /\ pendingLogs' = <<>>
    /\ batchTimeout' = FALSE
    /\ timerArmed' = FALSE
    /\ UNCHANGED <<isBatchProcessing, flushPc, flushAttempt, logBatch, execResult, flushResult,
                   logCount, httpLog>>
    /\ UNCHANGED <<rlVars, opVars, callVars, heapVars>>

\* enable()
Enable ==
    /\ disabled' = FALSE
    /\ UNCHANGED <<pendingLogs, isBatchProcessing, batchTimeout, timerArmed, flushPc,
                   flushAttempt, logBatch, execResult, flushResult, logCount, httpLog>>
    /\ UNCHANGED <<rlVars, opVars, callVars, heapVars>>

\* mutant of TakeBatch: the queue is copied and not emptied
TakeBatchKeepsQueue(queue) == [batch |-> queue, rest |-> queue]

\* processBatch(): const logsToSend = [...this.pendingLogs]; this.pendingLogs = []
TakeBatch(queue) == [batch |-> queue, rest |-> <<>>]

\* mutant of BatchGuard: a flush in progress does not stop the next one
BatchGuardIgnoresProcessing == ~(disabled \/ Len(pendingLogs) = 0)

\* the guard of processBatch()
BatchGuard == ~(disabled \/ Len(pendingLogs) = 0 \/ isBatchProcessing)

\* the 1-second timer fires: processBatch() up to its first await
TimerFire ==
    /\ timerArmed
    /\ timerArmed' = FALSE
    /\ IF BatchGuard
       THEN /\ isBatchProcessing' = TRUE
            /\ batchTimeout' = FALSE
            /\ logBatch' = TakeBatch(pendingLogs).batch
            /\ pendingLogs' = TakeBatch(pendingLogs).rest
            /\ flushPc' = "sending"
            /\ flushAttempt' = 0
            /\ httpLog' = httpLog \cup TelemetryRequests(TakeBatch(pendingLogs).batch)
            /\ UNCHANGED <<execResult, flushResult>>
       ELSE /\ flushResult' = "resolved"
            /\ execResult' = "none"
            /\ UNCHANGED <<isBatchProcessing, batchTimeout, logBatch, pendingLogs,
                           flushPc, flushAttempt, httpLog>>
    /\ UNCHANGED <<disabled, logCount>>
    /\ UNCHANGED <<rlVars, opVars, callVars, heapVars>>

\* MetiganLogger._makeRequestWithRetry, one failed attempt: "retry" (wait, then the
\* next attempt), "returned" (swallowed inside the executor) or "threw" (lastError)
LoggerOnError(status, a) ==
    LET last == (a = LoggerRetryCount - 1)
    IN  IF status = 403 /\ last THEN "returned"
        ELSE IF status = 0 /\ last THEN "returned"
        ELSE IF a < LoggerRetryCount - 1 THEN "retry"
        ELSE "threw"

\* mutant of BatchSettles: no .catch and no catch block, the executor's throw goes on
BatchPropagates(settled) == IF settled = "threw" THEN "rejected" ELSE "resolved"

\* processBatch(): .catch on the executor's promise, then try/catch
BatchSettles(settled) == "resolved"

\* processBatch(): the finally block
BatchFinally ==
    /\ isBatchProcessing' = FALSE
    /\ logBatch' = <<>>
    /\ LET L == IF Len(pendingLogs) > 0
                THEN ScheduleBatchProcessing(LoggerState)
                ELSE LoggerState
       IN  SetLogger(L)

\* the axios.post of the flush completes
FlushResponse ==
    /\ flushPc = "sending"
    /\ \E status \in TelemetryOutcomes :
        LET step == IF status = 200 THEN "returned"
                    ELSE LoggerOnError(status, flushAttempt)
        IN  IF step = "retry"
            THEN /\ flushPc' = "backoff"
                 /\ UNCHANGED <<disabled, pendingLogs, isBatchProcessing, batchTimeout,
                                timerArmed, logBatch, execResult, flushResult>>
            ELSE /\ flushPc' = "idle"
                 /\ execResult' = step
                 /\ flushResult' = BatchSettles(step)
                 /\ BatchFinally
    /\ UNCHANGED <<flushAttempt, logCount, httpLog>>
    /\ UNCHANGED <<rlVars, opVars, callVars, heapVars>>

\* the wait before the next attempt of the flush ends: the next axios.post
FlushBackoffEnd ==
    /\ flushPc = "backoff"
    /\ flushPc' = "sending"
    /\ flushAttempt' = flushAttempt + 1
    /\ httpLog' = httpLog \cup TelemetryRequests(logBatch)
    /\ UNCHANGED <<disabled, pendingLogs, isBatchProcessing, batchTimeout, timerArmed,
                   logBatch, execResult, flushResult, logCount>>
    /\ UNCHANGED <<rlVars, opVars, callVars, heapVars>>

----------------------------------------------------------------------------
(* The HTTP transport wrapper *)

\* export const DEFAULT_RETRY_COUNT = 3
DefaultRetryCount == 3

\* what an axios call can end with: a 2xx response, an error with a response
\* (its status, and whether its body has a message and an error field), or an
\* error without a response (network failure, timeout)
AxiosOutcomes ==
    {[ok |-> TRUE, response |-> TRUE, status |-> 200, hasMessage |-> FALSE, hasError |-> FALSE]}
    \cup {[ok |-> FALSE, response |-> TRUE, status |-> s, hasMessage |-> m, hasError |-> e] :
            s \in {400, 404, 500}, m \in BOOLEAN, e \in BOOLEAN}
    \cup {[ok |-> FALSE, response |-> FALSE, status |-> 0, hasMessage |-> FALSE, hasError |-> FALSE]}

\* http.get / post / put / patch / del: the catch block building the HttpError
\*   status: error.response?.status || 0,  data: error.response?.data || {}
HttpError(o) ==
    [status |-> IF o.response THEN o.status ELSE 0,
     hasMessage |-> o.response /\ o.hasMessage,
     hasError |-> o.response /\ o.hasError]

NoError == [status |-> -1, hasMessage |-> FALSE, hasError |-> FALSE]

\* error.data.message, error.data.error and error.message of an envelope
DataMessage(e) == <<"data.message", e.status>>
DataError(e) == <<"data.error", e.status>>
TransportMessage(e) == <<"error.message", e.status>>

----------------------------------------------------------------------------
(* Results of an operation *)

NoResult == [kind |-> "none", message |-> <<"", 0>>, status |-> 0]
Returned(what) == [kind |-> "returned", message |-> <<what, 0>>, status |-> 200]
Raised(kind, message, status) == [kind |-> kind, message |-> message, status |-> status]

\* throw of the caught envelope itself: {status, data, message}
RaisedEnvelope(e) == Raised("HttpError", TransportMessage(e), e.status)

\* what a catch block of an executor does: it throws, or it lets the loop go on,
\* after a backoff wait or without one
Throw(err) == [step |-> "throw", wait |-> FALSE, error |-> err]
Loop(wait) == [step |-> "loop", wait |-> wait, error |-> NoResult]

----------------------------------------------------------------------------
(* The retry executors: the catch block on envelope e at attempt a, and the *)
(* statement after the loop                                                 *)

\* mutant of EmailOnError: the retry does not wait
EmailOnErrorNoWait(e, a) ==
    IF a < retryCount - 1
    THEN Loop(FALSE)
    ELSE Throw(RaisedEnvelope(e))

\* Metigan._makeRequestWithRetry: the catch block
EmailOnError(e, a) ==
    IF a < retryCount - 1
    THEN Loop(TRUE)
    ELSE Throw(RaisedEnvelope(e))

\* Metigan._makeRequestWithRetry: throw lastError after the loop
EmailAfterLoop(e) == RaisedEnvelope(e)

\* mutant of FormsOnError: the wait is not skipped on the last attempt
FormsOnErrorAlwaysWaits(e, a) ==
    IF e.status # 0 /\ e.status >= 400 /\ e.status < 500
    THEN Throw(Raised("ApiError",
                      IF e.hasMessage THEN DataMessage(e)
                      ELSE IF e.hasError THEN DataError(e)
                      ELSE <<"Request failed with status", e.status>>,
                      e.status))
    ELSE Loop(TRUE)

\* MetiganForms.makeRequest: the catch block
FormsOnError(e, a) ==
    IF e.status # 0 /\ e.status >= 400 /\ e.status < 500
    THEN Throw(Raised("ApiError",
                      IF e.hasMessage THEN DataMessage(e)
                      ELSE IF e.hasError THEN DataError(e)
                      ELSE <<"Request failed with status", e.status>>,
                      e.status))
    ELSE Loop(a < retryCount - 1)

\* MetiganForms.makeRequest: the throw after the loop
FormsAfterLoop(e) ==
    Raised("ApiError",
           IF e.hasMessage THEN DataMessage(e)
           ELSE <<"Request failed after multiple attempts", 0>>,
           e.status)

\* mutant of ContactsOnError: > 400 in place of >= 400
ContactsOnErrorAbove400(e, a) ==
    IF e.status # 0 /\ e.status > 400 /\ e.status < 500
    THEN Throw(Raised("ApiError",
                      IF e.hasMessage THEN DataMessage(e)
                      ELSE IF e.hasError THEN DataError(e)
                      ELSE <<"Request failed with status", e.status>>,
                      e.status))
    ELSE Loop(a < retryCount - 1)

\* MetiganContacts.makeRequest: the catch block
ContactsOnError(e, a) ==
    IF e.status # 0 /\ e.status >= 400 /\ e.status < 500
    THEN Throw(Raised("ApiError",
                      IF e.hasMessage THEN DataMessage(e)
                      ELSE IF e.hasError THEN DataError(e)
                      ELSE <<"Request failed with status", e.status>>,
                      e.status))
    ELSE Loop(a < retryCount - 1)

\* MetiganContacts.makeRequest: the throw after the loop
ContactsAfterLoop(e) ==
    Raised("ApiError",
           IF e.hasMessage THEN DataMessage(e)
           ELSE <<"Request failed after multiple attempts", 0>>,
           e.status)

\* mutant of AudiencesOnError: the next attempt is made without the wait
AudiencesOnErrorNoWait(e, a) ==
    IF e.status # 0 /\ e.status >= 400 /\ e.status < 500
    THEN Throw(Raised("ApiError",
                      IF e.hasMessage THEN DataMessage(e)
                      ELSE IF e.hasError THEN DataError(e)
                      ELSE <<"Request failed with status", e.status>>,
                      e.status))
    ELSE Loop(FALSE)

\* MetiganAudiences.makeRequest: the catch block
AudiencesOnError(e, a) ==
    IF e.status # 0 /\ e.status >= 400 /\ e.status < 500
    THEN Throw(Raised("ApiError",
                      IF e.hasMessage THEN DataMessage(e)
                      ELSE IF e.hasError THEN DataError(e)
                      ELSE <<"Request failed with status", e.status>>,
                      e.status))
    ELSE Loop(a < retryCount - 1)

\* mutant of AudiencesAfterLoop: the message falls back to data.error, as in the
\* catch block
AudiencesAfterLoopErrorField(e) ==
    Raised("ApiError",
           IF e.hasMessage THEN DataMessage(e)
           ELSE IF e.hasError THEN DataError(e)
           ELSE <<"Request failed after multiple attempts", 0>>,
           e.status)

\* MetiganAudiences.makeRequest: the throw after the loop
AudiencesAfterLoop(e) ==
    Raised("ApiError",
           IF e.hasMessage THEN DataMessage(e)
           ELSE <<"Request failed after multiple attempts", 0>>,
           e.status)

\* MetiganTemplates.makeRequest: the catch block
TemplatesOnError(e, a) ==
    IF e.status >= 400 /\ e.status < 500
    THEN Throw(Raised("MetiganError",
                      IF e.hasError THEN DataError(e) ELSE TransportMessage(e),
                      0))
    ELSE Loop(a < retryCount - 1)

\* MetiganTemplates.makeRequest: throw lastError after the loop
TemplatesAfterLoop(e) == RaisedEnvelope(e)

ExecutorOnError(module, e, a) ==
    CASE module = "Email" -> EmailOnError(e, a)
      [] module = "Forms" -> FormsOnError(e, a)
      [] module = "Contacts" -> ContactsOnError(e, a)
      [] module = "Audiences" -> AudiencesOnError(e, a)
      [] module = "Templates" -> TemplatesOnError(e, a)

ExecutorAfterLoop(module, e) ==
    CASE module = "Email" -> EmailAfterLoop(e)
      [] module = "Forms" -> FormsAfterLoop(e)
      [] module = "Contacts" -> ContactsAfterLoop(e)
      [] module = "Audiences" -> AudiencesAfterLoop(e)
      [] module = "Templates" -> TemplatesAfterLoop(e)

\* for (let attempt = 0; attempt < this.retryCount; attempt++)
LoopGoesOn(a) == a + 1 < retryCount

\* the class of a transport outcome
OutcomeClass(o) ==
    IF o.ok THEN "ok"
    ELSE IF o.response /\ o.status >= 400 /\ o.status < 500 THEN "client"
    ELSE "retryable"

----------------------------------------------------------------------------
(* The public operations *)

Operation(module, kind) == [module |-> module, kind |-> kind]

NoOperation == [module |-> "none", kind |-> "none", check |-> "ok"]

FastLaneOperations ==
    {Operation("Email", "sendOtp"), Operation("Email", "sendTransactional")}

\* the operations of Forms, Contacts and Audiences: input checks, then one makeRequest
CrudOperations ==
    {Operation(m, "request") : m \in {"Forms", "Contacts", "Audiences"}}

\* MetiganTemplates.list / get, and exists, which wraps get
TemplatesOperations ==
    {Operation("Templates", "request"), Operation("Templates", "exists")}

\* a new operation starts only when the previous one has settled
CanCall == opPc \in {"idle", "done"} /\ callId < MaxCalls

\* mutant of Reject: the input checks run after the request has been sent
RejectAfterRequest(o, check, r) ==
    /\ callId' = callId + 1
    /\ op' = [module |-> o.module, kind |-> o.kind, check |-> check]
    /\ opPc' = "done"
    /\ attempt' = 0
    /\ attempts' = 0
    /\ waits' = 0
    /\ lastError' = NoError
    /\ observed' = NoError
    /\ outcomes' = <<>>
    /\ rejected' = IF check \in {"ok", "gate"}
                   THEN rejected
                   ELSE rejected \cup {[call |-> callId + 1, sendEmail |-> o.kind = "sendEmail"]}
    /\ result' = r
    /\ httpLog' = httpLog \cup {[call |-> callId + 1, target |-> "api"]}

\* the operation ends before its executor is entered, with result r
Reject(o, check, r) ==
    /\ callId' = callId + 1
    /\ op' = [module |-> o.module, kind |-> o.kind, check |-> check]
    /\ opPc' = "done"
    /\ attempt' = 0
    /\ attempts' = 0
    /\ waits' = 0
    /\ lastError' = NoError
    /\ observed' = NoError
    /\ outcomes' = <<>>
    /\ rejected' = IF check \in {"ok", "gate"}
                   THEN rejected
                   ELSE rejected \cup {[call |-> callId + 1, sendEmail |-> o.kind = "sendEmail"]}
    /\ result' = r
    /\ httpLog' = httpLog

\* the executor is entered: attempt 0 issues the first transport call
StartRequest(o) ==
    /\ callId' = callId + 1
    /\ op' = [module |-> o.module, kind |-> o.kind, check |-> "ok"]
    /\ opPc' = "inflight"
    /\ attempt' = 0
    /\ attempts' = 1
    /\ waits' = 0
    /\ lastError' = NoError
    /\ observed' = NoError
    /\ outcomes' = <<>>
    /\ rejected' = rejected
    /\ result' = NoResult
    /\ httpLog' = httpLog \cup {[call |-> callId + 1, target |-> "api"]}

\* sendEmail, the catch blocks: statusCode
StatusCode(e) == IF e.status # 0 THEN e.status ELSE 500

\* sendEmail, catch (httpError): the error raised for the envelope the executor threw
SendEmailError(e) ==
    IF e.status # 0
    THEN IF e.hasError
         THEN Raised("MetiganError",
                     IF e.hasMessage THEN DataMessage(e) ELSE DataError(e), 0)
         ELSE Raised("MetiganError", <<"Request failed with status", e.status>>, 0)
    ELSE Raised("MetiganError", <<"Failed to connect to the email service", 0>>, 0)

\* sendEmail, await this.logger.log(...): the call goes on with r when the promise
\* of log() resolves; a rejection would leave sendEmail as it is
AfterLog(L, r) ==
    IF LogSettles(L) = "resolved"
    THEN r
    ELSE Raised("Error", <<"log() rejected", 0>>, 0)

\* RateLimiter.getTimeUntilNextRequest: the value it returns at time t
TimeUntilNextRequest(reqs, t) ==
    LET kept == Prune(reqs, t)
    IN  IF UnderLimit(kept)
        THEN 0
        ELSE Max(0, windowMs - (t - Min(Range(kept))))

\* sendEmail, from entry to the first transport call or to the error it raises
SendEmail ==
    /\ CanCall
    /\ \E check \in {"ok", "invalid", "attachment"} :
        LET o == Operation("Email", "sendEmail")
            pruned == Prune(requests, now)
            gate == ~rlEnabled \/ UnderLimit(pruned)
        IN  /\ IF rlEnabled
               THEN /\ requests' = IF gate THEN Append(pruned, now) ELSE pruned
                    /\ granted' = IF gate THEN Append(granted, now) ELSE granted
                    /\ grantedSinceReset' =
                         IF gate THEN Append(grantedSinceReset, now) ELSE grantedSinceReset
                    /\ rlRet' = IF gate
                                THEN RlReturn("tryRequest", TRUE, 0)
                                ELSE RlReturn("getTimeUntilNextRequest", FALSE,
                                              TimeUntilNextRequest(pruned, now))
               ELSE UNCHANGED <<requests, granted, grantedSinceReset, rlRet>>
            /\ IF ~gate
               THEN /\ Reject(o, "gate",
                              Raised("MetiganError",
                                     <<"Rate limit exceeded", TimeUntilNextRequest(pruned, now)>>,
                                     0))
                    /\ UNCHANGED <<disabled, pendingLogs, batchTimeout, timerArmed>>
               ELSE IF check = "ok"
               THEN /\ StartRequest(o)
                    /\ UNCHANGED <<disabled, pendingLogs, batchTimeout, timerArmed>>
               ELSE \* _validateMessageData or the attachment checks fail: the outer
                    \* catch logs /email/send/error with statusCode 500 and rethrows
                    LET L == LoggerLog(LoggerState,
                                       LogEntry("/email/send/error", 500, callId + 1))
                    IN  /\ Reject(o, check,
                                  AfterLog(L, Raised("MetiganError",
                                                     IF check = "invalid"
                                                     THEN <<"Invalid email data", 0>>
                                                     ELSE <<"Attachment rejected", 0>>, 0)))
                        /\ SetLogger(L)
    /\ UNCHANGED <<now, rlEnabled, maxRequests, windowMs, resets>>
    /\ UNCHANGED <<isBatchProcessing, flushPc, flushAttempt, logBatch, execResult, flushResult,
                   logCount>>
    /\ UNCHANGED <<retryCount, callVars, heapVars>>

\* sendOtp / sendTransactional
SendFastLane ==
    /\ CanCall
    /\ \E o \in FastLaneOperations, check \in {"ok", "invalid"} :
        IF check = "ok"
        THEN StartRequest(o)
        ELSE /\ Reject(o, check, Raised("MetiganError", <<"required field missing", 0>>, 0))
    /\ UNCHANGED <<disabled, pendingLogs, isBatchProcessing, batchTimeout, timerArmed,
                   flushPc, flushAttempt, logBatch, execResult, flushResult, logCount>>
    /\ UNCHANGED <<rlVars, retryCount, callVars, heapVars>>

\* an operation of MetiganForms, MetiganContacts or MetiganAudiences
CrudOperation ==
    /\ CanCall
    /\ \E o \in CrudOperations, check \in {"ok", "invalid"} :
        IF check = "ok"
        THEN StartRequest(o)
        ELSE /\ Reject(o, check, Raised("ValidationError", <<"required field missing", 0>>, 0))
    /\ UNCHANGED <<disabled, pendingLogs, isBatchProcessing, batchTimeout, timerArmed,
                   flushPc, flushAttempt, logBatch, execResult, flushResult, logCount>>
    /\ UNCHANGED <<rlVars, retryCount, callVars, heapVars>>

\* MetiganTemplates.list / get / exists
TemplatesOperation ==
    /\ CanCall
    /\ \E o \in TemplatesOperations, check \in {"ok", "invalid"} :
        IF check = "ok"
        THEN StartRequest(o)
        ELSE /\ Reject(o, check,
                       IF o.kind = "exists"
                       THEN Returned("false")
                       ELSE Raised("MetiganError", <<"Template ID is required", 0>>, 0))
    /\ UNCHANGED <<disabled, pendingLogs, isBatchProcessing, batchTimeout, timerArmed,
                   flushPc, flushAttempt, logBatch, execResult, flushResult, logCount>>
    /\ UNCHANGED <<rlVars, retryCount, callVars, heapVars>>

\* what the public operation does with the executor's success
OnSuccess(o) ==
    IF o.kind = "exists" THEN Returned("true") ELSE Returned("response")

\* what the public operation does with the error the executor raised
OnFailure(o, e, err) ==
    CASE o.kind = "sendEmail" -> SendEmailError(e)
      [] o.kind = "exists" -> Returned("false")
      [] OTHER -> err

\* the executor ends by throwing err: the public operation settles
Fail(e, err) ==
    /\ opPc' = "done"
    /\ IF op.kind = "sendEmail"
       THEN LET L == LoggerLog(LoggerLog(LoggerState,
                         LogEntry("/email/send", StatusCode(e), callId)),
                         LogEntry("/email/send/error", StatusCode(e), callId))
            IN  /\ SetLogger(L)
                /\ result' = AfterLog(L, OnFailure(op, e, err))
       ELSE /\ result' = OnFailure(op, e, err)
            /\ UNCHANGED <<disabled, pendingLogs, batchTimeout, timerArmed>>

\* the next iteration of the loop issues its transport call
NextAttempt ==
    /\ opPc' = "inflight"
    /\ attempt' = attempt + 1
    /\ attempts' = attempts + 1
    /\ httpLog' = httpLog \cup {[call |-> callId, target |-> "api"]}
    /\ UNCHANGED <<result, disabled, pendingLogs, batchTimeout, timerArmed>>

\* the pending transport call of the operation completes
Response ==
    /\ opPc = "inflight"
    /\ \E outcome \in AxiosOutcomes :
        /\ outcomes' = Append(outcomes, OutcomeClass(outcome))
        /\ IF outcome.ok
           THEN /\ opPc' = "done"
                /\ UNCHANGED <<lastError, observed, waits, attempt, attempts, httpLog>>
                /\ IF op.kind = "sendEmail"
                   THEN LET L == LoggerLog(LoggerState,
                                           LogEntry("/email/send", 200, callId))
                        IN  /\ SetLogger(L)
                            /\ result' = AfterLog(L, OnSuccess(op))
                   ELSE /\ result' = OnSuccess(op)
                        /\ UNCHANGED <<disabled, pendingLogs, batchTimeout, timerArmed>>
           ELSE LET e == HttpError(outcome)
                    x == ExecutorOnError(op.module, e, attempt)
                IN  /\ lastError' = e
                    /\ observed' = IF e.status # 0 THEN e ELSE observed
                    /\ IF x.step = "throw"
                       THEN /\ Fail(e, x.error)
                            /\ UNCHANGED <<waits, attempt, attempts, httpLog>>
                       ELSE IF x.wait
                       THEN /\ opPc' = "backoff"
                            /\ waits' = waits + 1
                            /\ UNCHANGED <<attempt, attempts, httpLog, result, disabled,
                                           pendingLogs, batchTimeout, timerArmed>>
                       ELSE IF LoopGoesOn(attempt)
                       THEN /\ NextAttempt
                            /\ UNCHANGED waits
                       ELSE /\ Fail(e, ExecutorAfterLoop(op.module, e))
                            /\ UNCHANGED <<waits, attempt, attempts, httpLog>>
    /\ UNCHANGED <<retryCount, callId, op, rejected>>
    /\ UNCHANGED <<isBatchProcessing, flushPc, flushAttempt, logBatch, execResult, flushResult,
                   logCount>>
    /\ UNCHANGED <<rlVars, callVars, heapVars>>

\* the backoff wait of the operation ends
BackoffEnd ==
    /\ opPc = "backoff"
    /\ IF LoopGoesOn(attempt)
       THEN NextAttempt
       ELSE /\ Fail(lastError, ExecutorAfterLoop(op.module, lastError))
            /\ UNCHANGED <<attempt, attempts, httpLog>>
    /\ UNCHANGED <<retryCount, callId, op, waits, lastError, observed, outcomes, rejected>>
    /\ UNCHANGED <<isBatchProcessing, flushPc, flushAttempt, logBatch, execResult, flushResult,
                   logCount>>
    /\ UNCHANGED <<rlVars, callVars, heapVars>>

InitOps ==
    /\ \E option \in 0..MaxRetryCount :
        \* this.retryCount = options.retryCount || DEFAULT_RETRY_COUNT
        retryCount = IF option = 0 THEN DefaultRetryCount ELSE option
    /\ callId = 0
    /\ op = NoOperation
    /\ opPc = "idle"
    /\ attempt = 0
    /\ attempts = 0
    /\ waits = 0
    /\ lastError = NoError
    /\ observed = NoError
    /\ outcomes = <<>>
    /\ rejected = {}
    /\ result = NoResult

----------------------------------------------------------------------------
(* Client instances: the constructors, and the send operations of the Email *)
(* module as seen from the objects an instance holds                        *)

MaxClients == 2
MaxSends == 2

\* the API keys a constructor is called with, by length
ApiKeyLengths == {0, 9, 10}

\* the constructors: the unified client, the Email module, and the other modules
UnifiedClient == "Metigan"
EmailModule == "Email"
PlainModules == {"Forms", "Contacts", "Audiences", "Templates"}

NoObject == 0

\* what a constructor call ends with: it returns, or it throws an error of a kind
Constructed(objects) == [kind |-> "returned", created |-> objects]
ConstructorThrows(kind) == [kind |-> kind, created |-> {}]

\* mutant of NewRateLimiter: one limiter object for the whole process
NewRateLimiterShared(heap, limit) ==
    IF heap = <<>>
    THEN Append(heap, [requests |-> <<>>, maxRequests |-> limit])
    ELSE heap

\* new RateLimiter({maxRequests, windowMs: 1000}): a fresh object on the heap
NewRateLimiter(heap, limit) ==
    Append(heap, [requests |-> <<>>, maxRequests |-> limit])

\* new MetiganLogger(apiKey, userId, debug), then disable() when disableLogs is set
NewMetiganLogger(heap, disableLogs) ==
    Append(heap, [disabled |-> disableLogs, pendingLogs |-> <<>>,
                  batchTimeout |-> FALSE, timerArmed |-> FALSE])

\* let debugLogger: DebugLogger | null = null
NoDebugLogger == [created |-> FALSE, enabled |-> FALSE]

\* getDebugLogger(enabled): the module-level debugLogger is created by the first
\* call and returned as it is by every later one
GetDebugLogger(current, enabled) ==
    IF ~current.created THEN [created |-> TRUE, enabled |-> enabled] ELSE current

\* the first check of every constructor: if (!apiKey) throw new MetiganError(...)
ApiKeyRequired(keyLength) ==
    IF keyLength = 0 THEN ConstructorThrows("MetiganError") ELSE Constructed({})

\* Metigan (Email module) constructor: if (apiKey.length < 10) throw ...
ApiKeyFormat(keyLength) ==
    IF keyLength < 10 THEN ConstructorThrows("MetiganError") ELSE Constructed({})

\* the checks a constructor runs before it creates anything
ConstructorChecks(class, keyLength) ==
    IF ApiKeyRequired(keyLength).kind # "returned" THEN ApiKeyRequired(keyLength)
    ELSE IF class \in {UnifiedClient, EmailModule} THEN ApiKeyFormat(keyLength)
    ELSE Constructed({})

\* the instance as the model keeps it: the objects it holds and, as history, what
\* its send operations did
Instance(limiter, logger, debug) ==
    [rateLimiter |-> limiter, logger |-> logger,
     ownDebug |-> debug,    \* history: its debug option, then its own enableDebug /
                            \* disableDebug calls
     grants |-> <<>>,       \* history: times of its requests granted since its last reset
     proceeded |-> <<>>,    \* history: times of its sends that went on to the API, likewise
     \* history: its last sendEmail (when, the grants of its own then in the window and
     \* the oldest of them, whether it passed the gate, the wait time it raised,
     \* whether it went on to the API, the telemetry entries it enqueued)
     last |-> [at |-> -1, ownBefore |-> 0, oldest |-> 0, passed |-> TRUE, wait |-> 0,
               proceeded |-> FALSE, enqueued |-> 0]]

\* new Metigan(...) of the unified client, new Metigan(apiKey, options) of the Email
\* module, new MetiganForms(...) and the like, with the debug option in debugOptions
ConstructWith(debugOptions) ==
    /\ Len(clients) < MaxClients
    /\ \E class \in {UnifiedClient, EmailModule} \cup PlainModules,
          keyLength \in ApiKeyLengths,
          limit \in {0, maxRequests},        \* 0: enableRateLimit: false
          disableLogs \in BOOLEAN,
          debug \in debugOptions :
        LET checks == ConstructorChecks(class, keyLength)
            email == class \in {UnifiedClient, EmailModule}
            limiters == IF email /\ limit > 0
                        THEN NewRateLimiter(limiterHeap, limit)
                        ELSE limiterHeap
            loggers == IF email THEN NewMetiganLogger(loggerHeap, disableLogs) ELSE loggerHeap
        IN  /\ fn' = "constructor"
            /\ arg' = [class |-> class, apiKey |-> keyLength, client |-> Len(clients) + 1]
            /\ (~email => limit = 0 /\ ~disableLogs /\ ~debug)
            /\ IF checks.kind # "returned"
               THEN /\ ret' = checks
                    /\ limit = 0 /\ ~disableLogs /\ ~debug
                    /\ UNCHANGED <<clients, limiterHeap, loggerHeap, debugLogger>>
               ELSE /\ limiterHeap' = limiters
                    /\ loggerHeap' = loggers
                    /\ debugLogger' = IF email
                                      THEN GetDebugLogger(debugLogger, debug)
                                      ELSE debugLogger
                    /\ clients' = Append(clients,
                           Instance(IF email /\ limit > 0 THEN Len(limiters) ELSE NoObject,
                                    IF email THEN Len(loggers) ELSE NoObject,
                                    debug))
                    /\ ret' = Constructed(
                           (IF email THEN {"email", "logger"} ELSE {class})
                           \cup (IF email /\ limit > 0 THEN {"rateLimiter"} ELSE {})
                           \cup (IF class = UnifiedClient
                                 THEN {"forms", "contacts", "audiences"} ELSE {}))
    /\ UNCHANGED sends
    /\ UNCHANGED <<rlVars, logVars, opVars, calls, running>>

\* a constructor called without the debug option
Construct == ConstructWith({FALSE})

\* a constructor called with or without debug: true
ConstructDebug == ConstructWith(BOOLEAN)

\* enableDebug() on instance c: this.debug.enable()
EnableDebug ==
    /\ \E c \in DOMAIN clients :
        /\ clients[c].logger # NoObject
        /\ debugLogger' = [debugLogger EXCEPT !.enabled = TRUE]
        /\ clients' = [clients EXCEPT ![c].ownDebug = TRUE]
        /\ fn' = "enableDebug"
        /\ arg' = [class |-> EmailModule, apiKey |-> 10, client |-> c]
        /\ ret' = Constructed({})
    /\ UNCHANGED <<limiterHeap, loggerHeap, sends>>
    /\ UNCHANGED <<rlVars, logVars, opVars, calls, running>>

\* disableDebug() on instance c: this.debug.disable()
DisableDebug ==
    /\ \E c \in DOMAIN clients :
        /\ clients[c].logger # NoObject
        /\ debugLogger' = [debugLogger EXCEPT !.enabled = FALSE]
        /\ clients' = [clients EXCEPT ![c].ownDebug = FALSE]
        /\ fn' = "disableDebug"
        /\ arg' = [class |-> EmailModule, apiKey |-> 10, client |-> c]
        /\ ret' = Constructed({})
    /\ UNCHANGED <<limiterHeap, loggerHeap, sends>>
    /\ UNCHANGED <<rlVars, logVars, opVars, calls, running>>

\* mutant of LimiterTryRequest: the timestamp is recorded whatever the check says
LimiterTryRequestRecordsAlways(rl, t) ==
    LET kept == Prune(rl.requests, t)
        ok == Len(kept) < rl.maxRequests
    IN  [ok |-> ok,
         limiter |-> [rl EXCEPT !.requests = Append(kept, t)]]

\* RateLimiter.tryRequest on the object rl at time t
LimiterTryRequest(rl, t) ==
    LET kept == Prune(rl.requests, t)
        ok == Len(kept) < rl.maxRequests
    IN  [ok |-> ok,
         limiter |-> [rl EXCEPT !.requests = IF ok THEN Append(kept, t) ELSE kept]]

\* mutant of LimiterWait: the wait is the whole window
LimiterWaitWholeWindow(rl, t) ==
    LET kept == Prune(rl.requests, t)
    IN  IF Len(kept) < rl.maxRequests
        THEN 0
        ELSE Max(0, windowMs)

\* RateLimiter.getTimeUntilNextRequest on the object rl at time t
LimiterWait(rl, t) ==
    LET kept == Prune(rl.requests, t)
    IN  IF Len(kept) < rl.maxRequests
        THEN 0
        ELSE Max(0, windowMs - (t - Min(Range(kept))))

\* the instances that have an Email module
EmailClients == {c \in DOMAIN clients : clients[c].logger # NoObject}

\* sendEmail on instance c, from the rate-limit gate to the first transport call
\* or to the error it raises (the settling of the request is followed in Spec)
ClientSendEmail ==
    /\ sends < MaxSends
    /\ \E c \in EmailClients, check \in {"ok", "invalid"} :
        LET cl == clients[c]
            limited == cl.rateLimiter # NoObject
            try == IF limited
                   THEN LimiterTryRequest(limiterHeap[cl.rateLimiter], now)
                   ELSE [ok |-> TRUE, limiter |-> [requests |-> <<>>, maxRequests |-> 0]]
            L == loggerHeap[cl.logger]
            logged == IF try.ok /\ check = "invalid"
                      THEN LoggerLog(L, LogEntry("/email/send/error", 500, 0))
                      ELSE L
            own == InWindow(cl.grants, now)
        IN  /\ limiterHeap' = IF limited
                              THEN [limiterHeap EXCEPT ![cl.rateLimiter] = try.limiter]
                              ELSE limiterHeap
            /\ loggerHeap' = [loggerHeap EXCEPT ![cl.logger] = logged]
            /\ clients' = [clients EXCEPT ![c] =
                   [cl EXCEPT
                      !.grants = IF limited /\ try.ok THEN Append(own, now) ELSE own,
                      !.proceeded = IF try.ok /\ check = "ok"
                                    THEN Append(InWindow(@, now), now)
                                    ELSE InWindow(@, now),
                      !.last = [at |-> now, ownBefore |-> Len(own),
                                oldest |-> IF own = <<>> THEN now ELSE own[1],
                                passed |-> try.ok,
                                wait |-> IF try.ok THEN 0 ELSE LimiterWait(try.limiter, now),
                                proceeded |-> try.ok /\ check = "ok",
                                enqueued |-> Len(logged.pendingLogs) - Len(L.pendingLogs)]]]
            /\ fn' = "sendEmail"
            /\ arg' = [class |-> EmailModule, apiKey |-> 10, client |-> c]
            /\ ret' = IF try.ok /\ check = "ok"
                      THEN Constructed({})
                      ELSE ConstructorThrows("MetiganError")
    /\ sends' = sends + 1
    /\ UNCHANGED debugLogger
    /\ UNCHANGED <<rlVars, logVars, opVars, calls, running>>

\* sendOtp / sendTransactional on instance c: the input checks, then the executor
ClientSendFastLane ==
    /\ sends < MaxSends
    /\ \E c \in EmailClients, o \in FastLaneOperations, check \in {"ok", "invalid"} :
        LET cl == clients[c]
        IN  /\ clients' = [clients EXCEPT ![c] =
                   [cl EXCEPT
                      !.proceeded = IF check = "ok"
                                    THEN Append(InWindow(@, now), now)
                                    ELSE InWindow(@, now)]]
            /\ fn' = o.kind
            /\ arg' = [class |-> EmailModule, apiKey |-> 10, client |-> c]
            /\ ret' = IF check = "ok" THEN Constructed({}) ELSE ConstructorThrows("MetiganError")
    /\ sends' = sends + 1
    /\ UNCHANGED <<limiterHeap, loggerHeap, debugLogger>>
    /\ UNCHANGED <<rlVars, logVars, opVars, calls, running>>

\* resetRateLimit() on instance c
ClientResetRateLimit ==
    /\ \E c \in EmailClients :
        LET cl == clients[c]
        IN  /\ cl.rateLimiter # NoObject
            /\ limiterHeap[cl.rateLimiter].requests # <<>>
            /\ limiterHeap' = [limiterHeap EXCEPT ![cl.rateLimiter].requests = <<>>]
            /\ clients' = [clients EXCEPT ![c] =
                   [cl EXCEPT !.grants = <<>>, !.proceeded = <<>>]]
            /\ fn' = "resetRateLimit"
            /\ arg' = [class |-> EmailModule, apiKey |-> 10, client |-> c]
            /\ ret' = Constructed({})
    /\ UNCHANGED <<loggerHeap, sends, debugLogger>>
    /\ UNCHANGED <<rlVars, logVars, opVars, calls, running>>


----------------------------------------------------------------------------
(* Concurrent sendEmail calls on one instance: each call runs without       *)
(* interruption from one suspension point (an await) to the next            *)

\* RateLimiter.canMakeRequest on the object rl at time t
LimiterCanMakeRequest(rl, t) ==
    LET kept == Prune(rl.requests, t)
    IN  [ok |-> Len(kept) < rl.maxRequests,
         limiter |-> [rl EXCEPT !.requests = kept]]

\* RateLimiter.recordRequest on the object rl at time t
LimiterRecordRequest(rl, t) == [rl EXCEPT !.requests = Append(rl.requests, t)]

\* mutant of Suspends: tryRequest gives up control between its check and its record
SuspendsInTryRequest(pc) == pc \in {"inflight", "logging", "recordRequest"}

\* the places where sendEmail gives up control: await this._makeRequestWithRetry(...)
\* and await this.logger.log(...)
Suspends(pc) == pc \in {"inflight", "logging"}

\* the call has settled
Settled(pc) == pc \in {"returned", "thrown"}

\* who runs after call i has reached pc
RunsNext(i, pc) == IF Suspends(pc) \/ Settled(pc) THEN 0 ELSE i

Call(c, pc, at) == [client |-> c, pc |-> pc, at |-> at]

\* call i reaches pc
Goto(i, pc) ==
    /\ calls' = [calls EXCEPT ![i].pc = pc]
    /\ running' = RunsNext(i, pc)

\* sendEmail(options) is called on instance c while no other call is running
CallSendEmail ==
    /\ running = 0
    /\ Len(calls) < MaxSends
    /\ \E c \in EmailClients :
        /\ clients[c].rateLimiter # NoObject
        /\ calls' = Append(calls, Call(c, "canMakeRequest", -1))
        /\ running' = Len(calls) + 1
    /\ UNCHANGED <<clients, limiterHeap, loggerHeap, sends, debugLogger>>
    /\ UNCHANGED <<rlVars, logVars, opVars, callVars>>

\* tryRequest(): if (this.canMakeRequest()) ...; when it returns false sendEmail
\* throws the rate-limit error
StepCanMakeRequest ==
    /\ \E i \in DOMAIN calls :
        /\ running \in {0, i}
        /\ calls[i].pc = "canMakeRequest"
        /\ LET id == clients[calls[i].client].rateLimiter
               r == LimiterCanMakeRequest(limiterHeap[id], now)
           IN  /\ limiterHeap' = [limiterHeap EXCEPT ![id] = r.limiter]
               /\ Goto(i, IF r.ok THEN "recordRequest" ELSE "thrown")
    /\ UNCHANGED <<clients, loggerHeap, sends, debugLogger>>
    /\ UNCHANGED <<rlVars, logVars, opVars, callVars>>

\* tryRequest(): this.recordRequest(); return true
StepRecordRequest ==
    /\ \E i \in DOMAIN calls :
        /\ running \in {0, i}
        /\ calls[i].pc = "recordRequest"
        /\ LET id == clients[calls[i].client].rateLimiter
           IN  limiterHeap' = [limiterHeap EXCEPT
                                 ![id] = LimiterRecordRequest(limiterHeap[id], now)]
        /\ calls' = [calls EXCEPT ![i].pc = "validate", ![i].at = now]
        /\ running' = RunsNext(i, "validate")
    /\ UNCHANGED <<clients, loggerHeap, sends, debugLogger>>
    /\ UNCHANGED <<rlVars, logVars, opVars, callVars>>

\* sendEmail from _validateMessageData to its first await: the transport call of a
\* valid message, or the log() call of the catch block
StepValidate ==
    /\ \E i \in DOMAIN calls, check \in {"ok", "invalid"} :
        /\ running \in {0, i}
        /\ calls[i].pc = "validate"
        /\ LET id == clients[calls[i].client].logger
           IN  loggerHeap' =
                   IF check = "ok"
                   THEN loggerHeap
                   ELSE [loggerHeap EXCEPT
                           ![id] = LoggerLog(loggerHeap[id],
                                             LogEntry("/email/send/error", 500, i))]
        /\ Goto(i, IF check = "ok" THEN "inflight" ELSE "logging")
    /\ UNCHANGED <<clients, limiterHeap, sends, debugLogger>>
    /\ UNCHANGED <<rlVars, logVars, opVars, callVars>>

\* the executor of call i settles: sendEmail logs the outcome and awaits log()
CallResponse ==
    /\ \E i \in DOMAIN calls, status \in {200, 500} :
        /\ running = 0
        /\ calls[i].pc = "inflight"
        /\ LET id == clients[calls[i].client].logger
           IN  loggerHeap' = [loggerHeap EXCEPT
                                ![id] = LoggerLog(loggerHeap[id],
                                                  LogEntry("/email/send", status, i))]
        /\ Goto(i, "logging")
    /\ UNCHANGED <<clients, limiterHeap, sends, debugLogger>>
    /\ UNCHANGED <<rlVars, logVars, opVars, callVars>>

\* the promise of log() resolves: call i returns or throws
CallResumes ==
    /\ \E i \in DOMAIN calls, pc \in {"returned", "thrown"} :
        /\ running = 0
        /\ calls[i].pc = "logging"
        /\ Goto(i, pc)
    /\ UNCHANGED <<clients, limiterHeap, loggerHeap, sends, debugLogger>>
    /\ UNCHANGED <<rlVars, logVars, opVars, callVars>>
----------------------------------------------------------------------------
(* Specifications *)

\* no operation of a client is running
OpsIdle ==
    /\ retryCount = DefaultRetryCount
    /\ callId = 0
    /\ op = NoOperation
    /\ opPc = "idle"
    /\ attempt = 0
    /\ attempts = 0
    /\ waits = 0
    /\ lastError = NoError
    /\ observed = NoError
    /\ outcomes = <<>>
    /\ rejected = {}
    /\ result = NoResult

\* the logger of a client built with disableLogs: true, never enabled
LoggerOff ==
    /\ InitLogger
    /\ disabled = TRUE

\* this.rateLimiter = null (enableRateLimit: false)
RateLimiterOff ==
    /\ now = 0
    /\ rlEnabled = FALSE
    /\ requests = <<>>
    /\ maxRequests = 1
    /\ windowMs = 1
    /\ rlRet = RlReturn("none", FALSE, 0)
    /\ granted = <<>>
    /\ grantedSinceReset = <<>>
    /\ resets = 0

\* no function of the library has been applied to an input
NoCall ==
    /\ fn = "none"
    /\ arg = <<>>
    /\ ret = <<>>

\* no client instance has been built
NoClients ==
    /\ clients = <<>>
    /\ limiterHeap = <<>>
    /\ loggerHeap = <<>>
    /\ sends = 0
    /\ debugLogger = NoDebugLogger
    /\ calls = <<>>
    /\ running = 0

InitRL == InitRateLimiter /\ LoggerOff /\ OpsIdle /\ NoCall /\ NoClients

NextRL ==
    \/ Tick
    \/ CanMakeRequest
    \/ RecordRequest
    \/ TryRequest
    \/ GetTimeUntilNextRequest
    \/ Reset

SpecRL == InitRL /\ [][NextRL]_vars

InitLog == RateLimiterOff /\ InitLogger /\ OpsIdle /\ NoCall /\ NoClients

NextLog ==
    \/ Log
    \/ Disable
    \/ Enable
    \/ TimerFire
    \/ FlushResponse
    \/ FlushBackoffEnd

SpecLog == InitLog /\ [][NextLog]_vars

\* timers fire and every HTTP call terminates
FairSpecLog ==
    /\ SpecLog
    /\ WF_vars(TimerFire)
    /\ WF_vars(FlushResponse)
    /\ WF_vars(FlushBackoffEnd)

\* the clock and the options of the client instances: the 1000 ms window of their
\* limiters is windowMs ticks long, maxRequestsPerSecond is maxRequests
ClientsClock ==
    /\ now = 0
    /\ rlEnabled = FALSE
    /\ requests = <<>>
    /\ maxRequests \in 1..MaxMaxRequests
    /\ windowMs \in 2..MaxWindowMs
    /\ rlRet = RlReturn("none", FALSE, 0)
    /\ granted = <<>>
    /\ grantedSinceReset = <<>>
    /\ resets = 0

\* a client at rest: nothing built, nothing in flight, the clock stopped
IdleClient == ClientsClock /\ maxRequests = 1 /\ windowMs = 2 /\ LoggerOff /\ OpsIdle /\ NoClients

\* up to MaxClients instances are built and used, at one instant; the rate-limited
\* ones are built with maxRequestsPerSecond: 1
InitClients ==
    /\ ClientsClock /\ maxRequests = 1 /\ windowMs = 2
    /\ LoggerOff /\ OpsIdle /\ NoCall /\ NoClients

NextClients ==
    \/ Construct
    \/ ClientSendEmail
    \/ ClientSendFastLane
    \/ ClientResetRateLimit

SpecClients == InitClients /\ [][NextClients]_vars

\* one instance of the Email module, built with rate limiting on (the default),
\* used while the clock runs
InitGate ==
    /\ ClientsClock /\ LoggerOff /\ OpsIdle
    /\ fn = "constructor"
    /\ arg = [class |-> EmailModule, apiKey |-> 10, client |-> 1]
    /\ ret = Constructed({"email", "logger", "rateLimiter"})
    /\ \E disableLogs \in BOOLEAN :
        /\ limiterHeap = NewRateLimiter(<<>>, maxRequests)
        /\ loggerHeap = NewMetiganLogger(<<>>, disableLogs)
    /\ clients = <<Instance(1, 1, FALSE)>>
    /\ sends = 0
    /\ debugLogger = GetDebugLogger(NoDebugLogger, FALSE)
    /\ calls = <<>>
    /\ running = 0

NextGate ==
    \/ Tick
    \/ ClientSendEmail
    \/ ClientSendFastLane
    \/ ClientResetRateLimit

SpecGate == InitGate /\ [][NextGate]_vars

\* a client whose usage logging is on or off from construction (disableLogs);
\* the logger's run-time switches are exercised in SpecLog
Init == RateLimiterOff /\ InitLogger /\ InitOps /\ NoCall /\ NoClients

Next ==
    \/ SendEmail
    \/ SendFastLane
    \/ CrudOperation
    \/ TemplatesOperation
    \/ Response
    \/ BackoffEnd
    \/ TimerFire
    \/ FlushResponse
    \/ FlushBackoffEnd

Spec == Init /\ [][Next]_vars


\* instances built with and without debug: true, and their enableDebug() /
\* disableDebug() calls
InitDebug == IdleClient /\ NoCall

NextDebug ==
    \/ ConstructDebug
    \/ EnableDebug
    \/ DisableDebug

SpecDebug == InitDebug /\ [][NextDebug]_vars

\* concurrent sendEmail calls on one rate-limited instance, while the clock runs
NextCalls ==
    \/ Tick
    \/ CallSendEmail
    \/ StepCanMakeRequest
    \/ StepRecordRequest
    \/ StepValidate
    \/ CallResponse
    \/ CallResumes

\* the instance of InitGate, its window two ticks long
InitCalls == InitGate /\ windowMs = 2

SpecCalls == InitCalls /\ [][NextCalls]_vars

----------------------------------------------------------------------------
(* Strings, as sequences of characters, and the string functions of the    *)
(* security module and of the input checks                                  *)

CR == "\r"
LF == "\n"

\* the characters String.prototype.trim removes, among those used here
WhiteSpace == {" ", "\t", CR, LF}

\* s.replace(/[\r\n]/g, '')
RemoveCrLf(s) == SelectSeq(s, LAMBDA ch : ch \notin {CR, LF})

RECURSIVE TrimStart(_)
TrimStart(s) ==
    IF s # <<>> /\ Head(s) \in WhiteSpace THEN TrimStart(Tail(s)) ELSE s

RECURSIVE TrimEnd(_)
TrimEnd(s) ==
    IF s # <<>> /\ s[Len(s)] \in WhiteSpace THEN TrimEnd(SubSeq(s, 1, Len(s) - 1)) ELSE s

\* s.trim()
Trim(s) == TrimEnd(TrimStart(s))

\* s.substring(0, n)
Substring0(s, n) == SubSeq(s, 1, IF n < Len(s) THEN n ELSE Len(s))

\* the positions (from 1) of character ch in s
Positions(s, ch) == {i \in 1..Len(s) : s[i] = ch}

\* s.split(sep) for a one-character separator
RECURSIVE Split(_, _)
Split(s, sep) ==
    IF Positions(s, sep) = {} THEN <<s>>
    ELSE LET i == Min(Positions(s, sep))
         IN  <<SubSeq(s, 1, i - 1)>> \o Split(SubSeq(s, i + 1, Len(s)), sep)

SubjectLimit == 998

\* sanitizeEmail(email)
SanitizeEmail(email) ==
    IF email = <<>> THEN <<>>
    ELSE Trim(RemoveCrLf(email))

\* sanitizeSubject(subject)
SanitizeSubject(subject) ==
    IF subject = <<>> THEN <<>>
    ELSE Substring0(Trim(RemoveCrLf(subject)), SubjectLimit)

\* mutant of ContactsValidateEmail: the labels of the domain are not looked at
ContactsValidateEmailAnyLabel(email) ==
    IF email = <<>> THEN FALSE
    ELSE LET parts == Split(email, "@")
         IN  IF Len(parts) # 2 THEN FALSE
             ELSE IF Len(parts[1]) = 0 THEN FALSE
             ELSE Len(Split(parts[2], ".")) >= 2

\* Metigan._validateEmail(email)
ValidateEmail(email) ==
    IF email = <<>> THEN FALSE
    ELSE LET parts == Split(email, "@")
         IN  IF Len(parts) # 2 THEN FALSE
             ELSE IF Len(parts[1]) = 0 THEN FALSE
             ELSE LET domainParts == Split(parts[2], ".")
                  IN  IF Len(domainParts) < 2 THEN FALSE
                      ELSE IF \E i \in DOMAIN domainParts : Len(domainParts[i]) = 0 THEN FALSE
                      ELSE TRUE

\* MetiganContacts.validateEmail(email)
ContactsValidateEmail(email) ==
    IF email = <<>> THEN FALSE
    ELSE LET parts == Split(email, "@")
         IN  IF Len(parts) # 2 THEN FALSE
             ELSE IF Len(parts[1]) = 0 THEN FALSE
             ELSE LET domainParts == Split(parts[2], ".")
                  IN  IF Len(domainParts) < 2 THEN FALSE
                      ELSE IF \E i \in DOMAIN domainParts : Len(domainParts[i]) = 0 THEN FALSE
                      ELSE TRUE

\* the letters that have a lower-case form, and that form
UpperCase == <<"A", "B", "C", "D", "E", "F", "G", "H", "I", "J", "K", "L", "M",
               "N", "O", "P", "Q", "R", "S", "T", "U", "V", "W", "X", "Y", "Z">>
LowerCase == <<"a", "b", "c", "d", "e", "f", "g", "h", "i", "j", "k", "l", "m",
               "n", "o", "p", "q", "r", "s", "t", "u", "v", "w", "x", "y", "z">>

\* how the 'i' flag of a regular expression sees a character
FoldCase(ch) ==
    IF \E i \in DOMAIN UpperCase : UpperCase[i] = ch
    THEN LowerCase[CHOOSE i \in DOMAIN UpperCase : UpperCase[i] = ch]
    ELSE ch

\* the literal lit (in lower case) matches s at position i, whatever the case
MatchesAt(s, i, lit) ==
    /\ i >= 1
    /\ i + Len(lit) - 1 <= Len(s)
    /\ \A k \in 1..Len(lit) : FoldCase(s[i + k - 1]) = lit[k]

DANGEROUS_TAGS ==
    <<<<"s", "c", "r", "i", "p", "t">>, <<"i", "f", "r", "a", "m", "e">>, <<"o", "b", "j", "e", "c", "t">>, <<"e", "m", "b", "e", "d">>, <<"f", "o", "r", "m">>, <<"i", "n", "p", "u", "t">>,
      <<"b", "u", "t", "t", "o", "n">>, <<"s", "e", "l", "e", "c", "t">>, <<"t", "e", "x", "t", "a", "r", "e", "a">>, <<"a", "p", "p", "l", "e", "t">>, <<"m", "e", "t", "a">>, <<"l", "i", "n", "k">>,
      <<"b", "a", "s", "e">>, <<"f", "r", "a", "m", "e">>, <<"f", "r", "a", "m", "e", "s", "e", "t">>, <<"l", "a", "y", "e", "r">>, <<"i", "l", "a", "y", "e", "r">>, <<"b", "g", "s", "o", "u", "n", "d">>>>

\* the characters '.' does not match
LineTerminators == {CR, LF}

\* where a match of <tag[^>]*>.*?</tag>|<tag[^>]*\/?> that starts at i ends
\* (0: no match at i)
TagMatchEnd(s, i, tag) ==
    LET open == <<"<">> \o tag
        close == <<"<", "/">> \o tag \o <<">">>
        gts == {j \in (i + Len(open))..Len(s) : s[j] = ">"}
    IN  IF ~MatchesAt(s, i, open) \/ gts = {} THEN 0
        ELSE LET j == Min(gts)
                 closes == {k \in (j + 1)..Len(s) : MatchesAt(s, k, close)}
             IN  IF closes # {}
                    /\ \A m \in (j + 1)..(Min(closes) - 1) : s[m] \notin LineTerminators
                 THEN Min(closes) + Len(close) - 1
                 ELSE j

\* sanitized.replace(regex, '') with the 'g' flag, from position i on: matches are
\* taken left to right and the text after a match is scanned from its end
RECURSIVE ReplaceTagFrom(_, _, _)
ReplaceTagFrom(s, i, tag) ==
    LET lts == {j \in i..Len(s) : s[j] = "<"}
    IN  IF lts = {} THEN SubSeq(s, i, Len(s))
        ELSE LET j == Min(lts)
                 end == TagMatchEnd(s, j, tag)
             IN  IF end = 0
                 THEN SubSeq(s, i, j) \o ReplaceTagFrom(s, j + 1, tag)
                 ELSE SubSeq(s, i, j - 1) \o ReplaceTagFrom(s, end + 1, tag)

\* for (const tag of DANGEROUS_TAGS) sanitized = sanitized.replace(regex, ''),
\* from the n-th tag on
RECURSIVE RemoveDangerousTags(_, _)
RemoveDangerousTags(s, n) ==
    IF n > Len(DANGEROUS_TAGS) THEN s
    ELSE RemoveDangerousTags(ReplaceTagFrom(s, 1, DANGEROUS_TAGS[n]), n + 1)

\* the strings on which the attribute and URL replacements of sanitizeHtml match
\* nothing: each of their patterns needs a '='
NoAttributes(s) == Positions(s, "=") = {}

\* sanitizeHtml(html), for html without attributes
SanitizeHtml(html) ==
    IF html = <<>> THEN <<>>
    ELSE RemoveDangerousTags(html, 1)

----------------------------------------------------------------------------
(* Calls of the string functions, one input at a time                       *)

MaxLen == 5

\* the strings of at most MaxLen characters over an alphabet
Strings(alphabet) == UNION {[1..n -> alphabet] : n \in 0..MaxLen}

\* the inputs: short strings of address characters, short strings with spaces and
\* line breaks, and subjects around the length limit
EmailAlphabet == {"a", "@", "."}
HeaderAlphabet == {"a", " ", CR, LF}
LongTails == {<<"b">>, <<"b", "b">>, <<" ", "b">>, <<" ">>, <<"\n", " ", "b">>}
LongSubjects == {[i \in 1..(SubjectLimit - 1) |-> "a"] \o tail : tail \in LongTails}
MaxFragments == 3

\* HTML: up to MaxFragments pieces of markup one after the other
HtmlFragments == {<<"<", "s", "c", "r", "i", "p", "t", ">">>, <<"<", "/", "s", "c", "r", "i", "p", "t", ">">>, <<"<", "s", "c", "r">>, <<"i", "p", "t", ">">>, <<"<", "S", "C", "R", "I", "P", "T", ">">>, <<"<", "i", "f", "r", "a", "m", "e", ">">>,
                  <<"<", "p", ">", "o", "k", "<", "/", "p", ">">>, <<"x">>, <<"\n">>}
RECURSIVE Concatenations(_)
Concatenations(n) ==
    IF n = 0 THEN {<<>>}
    ELSE Concatenations(n - 1)
         \cup {s \o f : s \in Concatenations(n - 1), f \in HtmlFragments}
HtmlInputs == Concatenations(MaxFragments)

TextInputs ==
    Strings(EmailAlphabet) \cup Strings(HeaderAlphabet) \cup LongSubjects \cup HtmlInputs

\* fn is the function called last, arg the caller's string and ret the results of
\* the calls made on it so far
InitText ==
    /\ IdleClient
    /\ fn = "none"
    /\ arg \in TextInputs
    /\ ret = <<>>

\* sanitizeEmail(arg), then sanitizeEmail of what it returned
CallSanitizeEmail ==
    /\ \/ fn = "none" /\ ret' = <<SanitizeEmail(arg)>>
       \/ fn = "sanitizeEmail" /\ Len(ret) = 1 /\ ret' = Append(ret, SanitizeEmail(ret[1]))
    /\ fn' = "sanitizeEmail"
    /\ UNCHANGED <<arg, rlVars, logVars, opVars, heapVars>>

\* sanitizeSubject(arg), then sanitizeSubject of what it returned
CallSanitizeSubject ==
    /\ \/ fn = "none" /\ ret' = <<SanitizeSubject(arg)>>
       \/ fn = "sanitizeSubject" /\ Len(ret) = 1 /\ ret' = Append(ret, SanitizeSubject(ret[1]))
    /\ fn' = "sanitizeSubject"
    /\ UNCHANGED <<arg, rlVars, logVars, opVars, heapVars>>

\* this._validateEmail(arg) of the Email module
CallValidateEmail ==
    /\ fn = "none"
    /\ fn' = "_validateEmail"
    /\ ret' = <<ValidateEmail(arg)>>
    /\ UNCHANGED <<arg, rlVars, logVars, opVars, heapVars>>

\* this.validateEmail(arg) of the Contacts module, on the same string
CallContactsValidateEmail ==
    /\ fn = "_validateEmail"
    /\ fn' = "validateEmail"
    /\ ret' = Append(ret, ContactsValidateEmail(arg))
    /\ UNCHANGED <<arg, rlVars, logVars, opVars, heapVars>>

\* sanitizeHtml(arg)
CallSanitizeHtml ==
    /\ fn = "none"
    /\ NoAttributes(arg)
    /\ fn' = "sanitizeHtml"
    /\ ret' = <<SanitizeHtml(arg)>>
    /\ UNCHANGED <<arg, rlVars, logVars, opVars, heapVars>>

NextText ==
    \/ CallSanitizeHtml
    \/ CallSanitizeEmail
    \/ CallSanitizeSubject
    \/ CallValidateEmail
    \/ CallContactsValidateEmail

SpecText == InitText /\ [][NextText]_vars

----------------------------------------------------------------------------
(* The request payloads of sendEmail, sendOtp and sendTransactional, from   *)
(* the caller's options to what is handed to the transport                  *)

\* String.prototype.toLowerCase of one character: a letter with a lower-case form
\* gives that form, and U+0130 (capital I with dot above) gives two characters
LowerOfChar(ch) ==
    IF ch = "U+0130" THEN <<"i", "U+0307">>
    ELSE <<FoldCase(ch)>>

\* s.toLowerCase()
RECURSIVE ToLowerCase(_)
ToLowerCase(s) ==
    IF s = <<>> THEN <<>> ELSE LowerOfChar(Head(s)) \o ToLowerCase(Tail(s))

\* s.lastIndexOf(ch), counted from 0; -1 when ch does not occur
LastIndexOf(s, ch) ==
    IF Positions(s, ch) = {} THEN -1
    ELSE (CHOOSE i \in Positions(s, ch) : \A j \in Positions(s, ch) : j <= i) - 1

\* s.slice(start)
Slice(s, start) ==
    LET from == IF start < 0 THEN Max(Len(s) + start, 0) ELSE Min({start, Len(s)})
    IN  SubSeq(s, from + 1, Len(s))

DANGEROUS_EXTENSIONS ==
    {<<".", "e", "x", "e">>, <<".", "b", "a", "t">>, <<".", "c", "m", "d">>, <<".", "c", "o", "m">>, <<".", "m", "s", "i">>, <<".", "s", "c", "r">>, <<".", "p", "i", "f">>,
     <<".", "j", "s">>, <<".", "j", "s", "e">>, <<".", "v", "b", "s">>, <<".", "v", "b", "e">>, <<".", "w", "s", "f">>, <<".", "w", "s", "h">>, <<".", "p", "s", "1">>,
     <<".", "j", "a", "r">>, <<".", "s", "h">>, <<".", "b", "a", "s", "h">>, <<".", "a", "p", "p">>, <<".", "d", "m", "g">>, <<".", "d", "e", "b">>, <<".", "r", "p", "m">>}

\* isSafeFileExtension(filename)
IsSafeFileExtension(filename) ==
    IF filename = <<>> THEN FALSE
    ELSE Slice(ToLowerCase(filename), LastIndexOf(filename, ".")) \notin DANGEROUS_EXTENSIONS

ALLOWED_MIME_TYPES ==
    {<<"a", "p", "p", "l", "i", "c", "a", "t", "i", "o", "n", "/", "p", "d", "f">>, <<"a", "p", "p", "l", "i", "c", "a", "t", "i", "o", "n", "/", "m", "s", "w", "o", "r", "d">>,
     <<"a", "p", "p", "l", "i", "c", "a", "t", "i", "o", "n", "/", "v", "n", "d", ".", "o", "p", "e", "n", "x", "m", "l", "f", "o", "r", "m", "a", "t", "s", "-", "o", "f", "f", "i", "c", "e", "d", "o", "c", "u", "m", "e", "n", "t", ".", "w", "o", "r", "d", "p", "r", "o", "c", "e", "s", "s", "i", "n", "g", "m", "l", ".", "d", "o", "c", "u", "m", "e", "n", "t">>,
     <<"a", "p", "p", "l", "i", "c", "a", "t", "i", "o", "n", "/", "v", "n", "d", ".", "m", "s", "-", "e", "x", "c", "e", "l">>,
     <<"a", "p", "p", "l", "i", "c", "a", "t", "i", "o", "n", "/", "v", "n", "d", ".", "o", "p", "e", "n", "x", "m", "l", "f", "o", "r", "m", "a", "t", "s", "-", "o", "f", "f", "i", "c", "e", "d", "o", "c", "u", "m", "e", "n", "t", ".", "s", "p", "r", "e", "a", "d", "s", "h", "e", "e", "t", "m", "l", ".", "s", "h", "e", "e", "t">>,
     <<"a", "p", "p", "l", "i", "c", "a", "t", "i", "o", "n", "/", "v", "n", "d", ".", "m", "s", "-", "p", "o", "w", "e", "r", "p", "o", "i", "n", "t">>,
     <<"a", "p", "p", "l", "i", "c", "a", "t", "i", "o", "n", "/", "v", "n", "d", ".", "o", "p", "e", "n", "x", "m", "l", "f", "o", "r", "m", "a", "t", "s", "-", "o", "f", "f", "i", "c", "e", "d", "o", "c", "u", "m", "e", "n", "t", ".", "p", "r", "e", "s", "e", "n", "t", "a", "t", "i", "o", "n", "m", "l", ".", "p", "r", "e", "s", "e", "n", "t", "a", "t", "i", "o", "n">>,
     <<"t", "e", "x", "t", "/", "p", "l", "a", "i", "n">>, <<"t", "e", "x", "t", "/", "c", "s", "v">>,
     <<"i", "m", "a", "g", "e", "/", "j", "p", "e", "g">>, <<"i", "m", "a", "g", "e", "/", "p", "n", "g">>, <<"i", "m", "a", "g", "e", "/", "g", "i", "f">>, <<"i", "m", "a", "g", "e", "/", "w", "e", "b", "p">>, <<"i", "m", "a", "g", "e", "/", "s", "v", "g", "+", "x", "m", "l">>,
     <<"a", "p", "p", "l", "i", "c", "a", "t", "i", "o", "n", "/", "z", "i", "p">>, <<"a", "p", "p", "l", "i", "c", "a", "t", "i", "o", "n", "/", "x", "-", "r", "a", "r", "-", "c", "o", "m", "p", "r", "e", "s", "s", "e", "d">>, <<"a", "p", "p", "l", "i", "c", "a", "t", "i", "o", "n", "/", "x", "-", "7", "z", "-", "c", "o", "m", "p", "r", "e", "s", "s", "e", "d">>,
     <<"a", "u", "d", "i", "o", "/", "m", "p", "e", "g">>, <<"a", "u", "d", "i", "o", "/", "w", "a", "v">>, <<"v", "i", "d", "e", "o", "/", "m", "p", "4">>, <<"v", "i", "d", "e", "o", "/", "w", "e", "b", "m">>}

BLOCKED_MIME_TYPES ==
    {<<"a", "p", "p", "l", "i", "c", "a", "t", "i", "o", "n", "/", "x", "-", "m", "s", "d", "o", "w", "n", "l", "o", "a", "d">>, <<"a", "p", "p", "l", "i", "c", "a", "t", "i", "o", "n", "/", "x", "-", "e", "x", "e", "c", "u", "t", "a", "b", "l", "e">>,
     <<"a", "p", "p", "l", "i", "c", "a", "t", "i", "o", "n", "/", "x", "-", "m", "s", "d", "o", "s", "-", "p", "r", "o", "g", "r", "a", "m">>, <<"a", "p", "p", "l", "i", "c", "a", "t", "i", "o", "n", "/", "j", "a", "v", "a", "s", "c", "r", "i", "p", "t">>, <<"t", "e", "x", "t", "/", "j", "a", "v", "a", "s", "c", "r", "i", "p", "t">>,
     <<"a", "p", "p", "l", "i", "c", "a", "t", "i", "o", "n", "/", "x", "-", "j", "a", "v", "a", "s", "c", "r", "i", "p", "t">>, <<"t", "e", "x", "t", "/", "h", "t", "m", "l">>, <<"a", "p", "p", "l", "i", "c", "a", "t", "i", "o", "n", "/", "x", "h", "t", "m", "l", "+", "x", "m", "l">>,
     <<"a", "p", "p", "l", "i", "c", "a", "t", "i", "o", "n", "/", "x", "-", "s", "h", "o", "c", "k", "w", "a", "v", "e", "-", "f", "l", "a", "s", "h">>}

\* isAllowedMimeType(mimeType)
IsAllowedMimeType(mimeType) ==
    IF mimeType = <<>> THEN FALSE
    ELSE LET normalizedType == Trim(ToLowerCase(mimeType))
         IN  IF normalizedType \in BLOCKED_MIME_TYPES THEN FALSE
             ELSE normalizedType \in ALLOWED_MIME_TYPES

MAX_FILE_SIZE == 7 * 1024 * 1024

\* what a step of sendEmail ends with: it goes on, or it throws a MetiganError
Passed == [error |-> "none", file |-> <<>>]
Thrown(message, file) == [error |-> message, file |-> file]

\* the shapes _validateAttachments and _processAttachments tell apart
KnownShapes == {"File", "NodeAttachment", "CustomAttachment"}

\* _validateAttachments, from the n-th attachment on
RECURSIVE ValidateAttachments(_, _)
ValidateAttachments(attachments, n) ==
    IF n > Len(attachments) THEN Passed
    ELSE LET file == attachments[n]
         IN  IF file.shape \notin KnownShapes
             THEN Thrown("Invalid attachment format", <<>>)
             ELSE IF ~IsSafeFileExtension(file.filename)
             THEN Thrown("File extension not allowed for security reasons", file.filename)
             ELSE ValidateAttachments(attachments, n + 1)

\* the this.debug.warn calls of _validateAttachments: the attachments whose MIME
\* type is given and not allowed, among those whose extension it accepted
MimeWarnings(attachments) ==
    {n \in DOMAIN attachments :
        /\ \A m \in 1..n : /\ attachments[m].shape \in KnownShapes
                           /\ IsSafeFileExtension(attachments[m].filename)
        /\ attachments[n].mimetype # <<>>
        /\ ~IsAllowedMimeType(attachments[n].mimetype)}

\* _processAttachments, from the n-th attachment on
RECURSIVE ProcessAttachments(_, _)
ProcessAttachments(attachments, n) ==
    IF n > Len(attachments) THEN Passed
    ELSE LET file == attachments[n]
         IN  IF file.shape \notin KnownShapes
             THEN Thrown("Invalid attachment format", <<>>)
             ELSE IF file.size > MAX_FILE_SIZE
             THEN Thrown("exceeds the maximum size of 7MB", file.filename)
             ELSE ProcessAttachments(attachments, n + 1)

\* the loop of the FormData branch, from the n-th attachment on; env.File tells
\* whether the global File exists (file instanceof File throws when it does not)
RECURSIVE AppendFiles(_, _, _)
AppendFiles(attachments, env, n) ==
    IF n > Len(attachments) THEN Passed
    ELSE IF ~env.File
    THEN Thrown("An unexpected error occurred while sending email", <<>>)
    ELSE IF attachments[n].shape # "File"
    THEN Thrown("In browser environments, attachments must be File objects", <<>>)
    ELSE AppendFiles(attachments, env, n + 1)

\* _extractEmailAddress(from): what from.match(/<([^>]+)>/) captures, trimmed, or
\* from.trim()
ExtractEmailAddress(from) ==
    LET opens == {i \in Positions(from, "<") :
                     /\ i + 1 <= Len(from) /\ from[i + 1] # ">"
                     /\ \E j \in Positions(from, ">") : j > i}
    IN  IF from = <<>> THEN <<>>
        ELSE IF opens = {} THEN Trim(from)
        ELSE LET i == Min(opens)
                 j == Min({k \in Positions(from, ">") : k > i})
             IN  Trim(SubSeq(from, i + 1, j - 1))

\* the address checks of _validateMessageData on one string
AddressOk(address) ==
    /\ ExtractEmailAddress(address) # <<>>
    /\ ValidateEmail(ExtractEmailAddress(address))

\* _validateMessageData(messageData)
ValidateMessageData(messageData) ==
    IF messageData.from = <<>> THEN Thrown("Sender email (from) is required", <<>>)
    ELSE IF messageData.recipients = <<>>
    THEN Thrown("Recipients must be a non-empty array", <<>>)
    ELSE IF messageData.subject = <<>> THEN Thrown("Subject is required", <<>>)
    ELSE IF messageData.content = <<>>
    THEN Thrown("Either content or templateId is required", <<>>)
    ELSE IF ~AddressOk(messageData.from) THEN Thrown("Invalid sender email format", <<>>)
    ELSE IF \E i \in DOMAIN messageData.recipients : ~AddressOk(messageData.recipients[i])
    THEN Thrown("Invalid recipient email format", <<>>)
    ELSE IF \E i \in DOMAIN messageData.cc : ~AddressOk(messageData.cc[i])
    THEN Thrown("Invalid CC email format", <<>>)
    ELSE IF \E i \in DOMAIN messageData.bcc : ~AddressOk(messageData.bcc[i])
    THEN Thrown("Invalid BCC email format", <<>>)
    ELSE IF messageData.replyTo # <<>> /\ ~AddressOk(messageData.replyTo)
    THEN Thrown("Invalid reply-to email format", <<>>)
    ELSE Passed

\* what a send operation ends with, as far as its request goes: the payload it
\* hands to the transport, or the error it throws before that
Transmits(payload) == [kind |-> "sent", payload |-> payload]
Refuses(thrown) == [kind |-> "MetiganError", message |-> thrown.error, file |-> thrown.file]

\* sanitizedOptions of sendEmail and the body built from it
EmailPayload(options, body) ==
    [body |-> body,
     from |-> SanitizeEmail(options.from),
     recipients |-> [i \in DOMAIN options.recipients |-> SanitizeEmail(options.recipients[i])],
     subject |-> SanitizeSubject(options.subject),
     cc |-> [i \in DOMAIN options.cc |-> SanitizeEmail(options.cc[i])],
     bcc |-> [i \in DOMAIN options.bcc |-> SanitizeEmail(options.bcc[i])],
     replyTo |-> IF options.replyTo # <<>> THEN SanitizeEmail(options.replyTo) ELSE <<>>,
     attachments |-> options.attachments]

\* sendEmail(options) where FormData and File exist or not (env), after the
\* rate-limit gate
SendEmailRequest(options, env) ==
    IF ValidateMessageData(options).error # "none"
    THEN Refuses(ValidateMessageData(options))
    ELSE IF options.attachments = <<>> THEN Transmits(EmailPayload(options, "json"))
    ELSE IF ValidateAttachments(options.attachments, 1).error # "none"
    THEN Refuses(ValidateAttachments(options.attachments, 1))
    ELSE IF env.FormData
    THEN IF AppendFiles(options.attachments, env, 1).error # "none"
         THEN Refuses(AppendFiles(options.attachments, env, 1))
         ELSE Transmits(EmailPayload(options, "multipart"))
    ELSE IF ProcessAttachments(options.attachments, 1).error # "none"
    THEN Refuses(ProcessAttachments(options.attachments, 1))
    ELSE Transmits(EmailPayload(options, "json"))

\* the payload of sendOtp and sendTransactional
FastLanePayload(options) ==
    [body |-> "json",
     to |-> IF options.to # <<>> THEN options.to ELSE <<>>,
     email |-> IF options.to # <<>> THEN <<>> ELSE options.email,
     from |-> SanitizeEmail(options.from),
     subject |-> IF options.subject # <<>> THEN SanitizeSubject(options.subject) ELSE <<>>]

\* sendOtp(options); code tells whether options.code is given
SendOtpRequest(options) ==
    IF options.to = <<>> /\ options.email = <<>>
    THEN Refuses(Thrown("Recipient email is required", <<>>))
    ELSE IF options.from = <<>> THEN Refuses(Thrown("Sender email (from) is required", <<>>))
    ELSE IF ~options.code THEN Refuses(Thrown("OTP code is required", <<>>))
    ELSE Transmits(FastLanePayload(options))

\* sendTransactional(options); content tells whether options.content or .html is
\* given
SendTransactionalRequest(options) ==
    IF options.to = <<>> /\ options.email = <<>>
    THEN Refuses(Thrown("Recipient email is required", <<>>))
    ELSE IF options.from = <<>> THEN Refuses(Thrown("Sender email (from) is required", <<>>))
    ELSE IF options.subject = <<>> THEN Refuses(Thrown("Subject is required", <<>>))
    ELSE IF ~options.content THEN Refuses(Thrown("Content or html is required", <<>>))
    ELSE Transmits(FastLanePayload(options))

\* the debug warnings of a sendEmail call
SendEmailWarnings(options) ==
    IF ValidateMessageData(options).error # "none" THEN {}
    ELSE MimeWarnings(options.attachments)

----------------------------------------------------------------------------
(* Calls of the send operations, one set of options at a time               *)

MaxAttachments == 2

\* addresses and subjects a caller may pass: clean ones and ones with line breaks
CleanAddress == <<"a", "@", "b", ".", "c", "o">>
Addresses == {CleanAddress, <<"a", "@", "b", ".", "c", "o", "\r", "\n", "B", "c", "c", ":", "x", "@", "y", ".", "z", "z">>, <<"a", "\n", "@", "b", ".", "c", "o">>, <<"a", "@", "b", ".", "c", "o", "\r", "\n">>}
Subjects == {<<"h", "i">>, <<"h", "i", "\r", "\n", "B", "c", "c", ":", "x", "@", "y", ".", "z", "z">>}

\* attachments a caller may pass: every shape with a safe and a dangerous file
\* name under every MIME type, further file names, every shape above the size
\* limit and one at the limit, and an object of no known shape
FileNames == {<<"a", ".", "p", "d", "f">>, <<"a", ".", "e", "x", "e">>, <<"a", ".", "E", "X", "E">>, <<"U+0130", ".", "e", "x", "e">>, <<"a">>}
MimeTypes == {<<"a", "p", "p", "l", "i", "c", "a", "t", "i", "o", "n", "/", "p", "d", "f">>, <<"A", "p", "p", "l", "i", "c", "a", "t", "i", "o", "n", "/", "X", "-", "M", "S", "D", "o", "w", "n", "l", "o", "a", "d">>, <<"a", "p", "p", "l", "i", "c", "a", "t", "i", "o", "n", "/", "o", "c", "t", "e", "t", "-", "s", "t", "r", "e", "a", "m">>, <<>>}
Attachment(shape, filename, mimetype, size) ==
    [shape |-> shape, filename |-> filename, mimetype |-> mimetype, size |-> size]
Attachments ==
    {Attachment(shape, filename, mimetype, 1) :
        shape \in KnownShapes, filename \in {<<"a", ".", "p", "d", "f">>, <<"a", ".", "e", "x", "e">>}, mimetype \in MimeTypes}
    \cup {Attachment("CustomAttachment", filename, <<"a", "p", "p", "l", "i", "c", "a", "t", "i", "o", "n", "/", "p", "d", "f">>, 1) :
        filename \in FileNames}
    \cup {Attachment(shape, <<"a", ".", "p", "d", "f">>, <<"a", "p", "p", "l", "i", "c", "a", "t", "i", "o", "n", "/", "p", "d", "f">>, MAX_FILE_SIZE + 1) :
        shape \in KnownShapes}
    \cup {Attachment("NodeAttachment", <<"a", ".", "p", "d", "f">>, <<"a", "p", "p", "l", "i", "c", "a", "t", "i", "o", "n", "/", "p", "d", "f">>, MAX_FILE_SIZE),
          Attachment("other", <<"a", ".", "p", "d", "f">>, <<"a", "p", "p", "l", "i", "c", "a", "t", "i", "o", "n", "/", "p", "d", "f">>, 1)}
AttachmentLists == UNION {[1..n -> Attachments] : n \in 0..MaxAttachments}

\* where the code runs: whether the globals FormData and File exist
Environments == [FormData : BOOLEAN, File : BOOLEAN]

EmailOptions(from, recipients, subject, cc, bcc, replyTo, attachments) ==
    [from |-> from, recipients |-> recipients, subject |-> subject, content |-> <<"x">>,
     cc |-> cc, bcc |-> bcc, replyTo |-> replyTo, attachments |-> attachments]

\* options of sendEmail: every mix of addresses and subjects without attachments,
\* and every list of attachments with clean addresses
EmailInputs ==
    {EmailOptions(from, recipients, subject, cc, bcc, replyTo, <<>>) :
        from \in Addresses,
        recipients \in {<<a>> : a \in Addresses} \cup {<<CleanAddress, <<"a", "\n", "@", "b", ".", "c", "o">>>>},
        subject \in Subjects \cup {<<>>},
        cc \in {<<>>, <<<<"a", "\n", "@", "b", ".", "c", "o">>>>},
        bcc \in {<<>>, <<<<"a", "@", "b", ".", "c", "o", "\r", "\n">>>>},
        replyTo \in {<<>>, <<"a", "@", "b", ".", "c", "o", "\r", "\n">>}}
    \cup {EmailOptions(CleanAddress, <<CleanAddress>>, <<"h", "i">>, <<>>, <<>>, <<>>, attachments) :
        attachments \in AttachmentLists}

\* options of sendOtp (code) and of sendTransactional (content)
OtpInputs ==
    [to : {<<>>} \cup Addresses, email : {<<>>, CleanAddress, <<"a", "@", "b", ".", "c", "o", "\r", "\n", "B", "c", "c", ":", "x", "@", "y", ".", "z", "z">>},
     from : {<<>>, CleanAddress, <<"a", "@", "b", ".", "c", "o", "\r", "\n">>}, subject : Subjects \cup {<<>>},
     code : BOOLEAN]
TransactionalInputs ==
    [to : {<<>>} \cup Addresses, email : {<<>>, CleanAddress, <<"a", "@", "b", ".", "c", "o", "\r", "\n", "B", "c", "c", ":", "x", "@", "y", ".", "z", "z">>},
     from : {<<>>, CleanAddress, <<"a", "@", "b", ".", "c", "o", "\r", "\n">>}, subject : Subjects \cup {<<>>},
     content : BOOLEAN]

\* fn is the operation called, arg its options and the environment, ret what came
\* of the request and the debug warnings
InitPayload ==
    /\ IdleClient
    /\ fn = "none"
    /\ \E env \in Environments :
        /\ arg \in [options : EmailInputs \cup OtpInputs \cup TransactionalInputs,
                    env : {env}]
        \* an attachment can be a File object only where File exists
        /\ "attachments" \in DOMAIN arg.options =>
               \A n \in DOMAIN arg.options.attachments :
                   arg.options.attachments[n].shape = "File" => env.File
    /\ ret = <<>>

PayloadSendEmail ==
    /\ fn = "none"
    /\ "attachments" \in DOMAIN arg.options
    /\ fn' = "sendEmail"
    /\ ret' = [outcome |-> SendEmailRequest(arg.options, arg.env),
               warnings |-> SendEmailWarnings(arg.options)]
    /\ UNCHANGED <<arg, rlVars, logVars, opVars, heapVars>>

PayloadSendOtp ==
    /\ fn = "none"
    /\ "code" \in DOMAIN arg.options
    /\ fn' = "sendOtp"
    /\ ret' = [outcome |-> SendOtpRequest(arg.options), warnings |-> {}]
    /\ UNCHANGED <<arg, rlVars, logVars, opVars, heapVars>>

PayloadSendTransactional ==
    /\ fn = "none"
    /\ "code" \notin DOMAIN arg.options /\ "attachments" \notin DOMAIN arg.options
    /\ fn' = "sendTransactional"
    /\ ret' = [outcome |-> SendTransactionalRequest(arg.options), warnings |-> {}]
    /\ UNCHANGED <<arg, rlVars, logVars, opVars, heapVars>>

NextPayload ==
    \/ PayloadSendEmail
    \/ PayloadSendOtp
    \/ PayloadSendTransactional

SpecPayload == InitPayload /\ [][NextPayload]_vars

----------------------------------------------------------------------------
(* The retry executors with their numbers: the timeout each transport call  *)
(* is given and the length of each backoff wait                             *)

\* export const DEFAULT_TIMEOUT = 30000
DEFAULT_TIMEOUT == 30000

\* export const DEFAULT_RETRY_DELAY = 1000
DEFAULT_RETRY_DELAY == 1000

\* http.get / post / put / patch / del: timeout: options?.timeout || 30000
HttpFallbackTimeout == 30000

\* the largest retryCount option passed to a constructor
MaxRetryOption == 5

\* Math.random() returns r / RandomSteps for an r in 0 .. RandomSteps - 1
RandomSteps == 4

ModuleNames == {"Email", "Forms", "Contacts", "Audiences", "Templates"}

\* the options passed to a constructor; 0 stands for an option left out
ModuleOptions ==
    [module : ModuleNames,
     timeout : {0, 5000, 60000},
     retryCount : 0..MaxRetryOption,
     retryDelay : {0, 100, 1000}]

\* the constructors: this.timeout = options.timeout || DEFAULT_TIMEOUT, and so on
NewModule(o) ==
    [module |-> o.module,
     timeout |-> IF o.timeout = 0 THEN DEFAULT_TIMEOUT ELSE o.timeout,
     retryCount |-> IF o.retryCount = 0 THEN DefaultRetryCount ELSE o.retryCount,
     retryDelay |-> IF o.retryDelay = 0 THEN DEFAULT_RETRY_DELAY ELSE o.retryDelay]

\* the RequestOptions an executor passes to http.get / post / ...: Forms,
\* Contacts and Audiences pass { timeout: this.timeout }, the executors of
\* Metigan and of MetiganTemplates pass no options
RequestOptions(m) ==
    IF m.module \in {"Email", "Templates"}
    THEN [timeout |-> 0]
    ELSE [timeout |-> m.timeout]

\* http.post: the AxiosRequestConfig built from the options
AxiosConfig(options) ==
    [timeout |-> IF options.timeout = 0 THEN HttpFallbackTimeout ELSE options.timeout]

\* Math.pow(2, a)
RECURSIVE Pow2(_)
Pow2(a) == IF a = 0 THEN 1 ELSE 2 * Pow2(a - 1)

\* a wait of num / den milliseconds
Milliseconds(num, den) == [num |-> num, den |-> den]

\* the argument of setTimeout in the catch block of module m at attempt a, with
\* Math.random() = r / RandomSteps
BackoffDelay(m, a, r) ==
    CASE m.module = "Email" ->
           \* this.retryDelay * Math.pow(2, attempt) * (0.5 + Math.random() * 0.5)
           Milliseconds(m.retryDelay * Pow2(a) * (RandomSteps + r), 2 * RandomSteps)
      [] m.module = "Templates" ->
           \* this.retryDelay * (attempt + 1)
           Milliseconds(m.retryDelay * (a + 1), 1)
      [] OTHER ->
           \* this.retryDelay * Math.pow(2, attempt)
           Milliseconds(m.retryDelay * Pow2(a), 1)

\* the catch block stops the loop on a 4xx response, except in Metigan
StopsOnClientError(m) == m.module # "Email"

Executor(m, a, config, delay) ==
    [self |-> m, attempt |-> a, config |-> config, delay |-> delay]

\* arg holds the options of the constructor call, fn the step the executor of the
\* instance is at, and ret the instance with the attempt index, the config of the
\* last transport call and the last wait
InitExec ==
    /\ IdleClient
    /\ fn = "none"
    /\ arg \in ModuleOptions
    /\ ret = <<>>

\* new Metigan(key, options), new MetiganForms(options), ..., and the first
\* iteration of the loop of an operation's executor
ExecStart ==
    /\ fn = "none"
    /\ fn' = "request"
    /\ LET m == NewModule(arg)
       IN  ret' = Executor(m, 0, AxiosConfig(RequestOptions(m)), Milliseconds(0, 1))
    /\ UNCHANGED <<arg, rlVars, logVars, opVars, heapVars>>

\* the transport call returns
ExecReturns ==
    /\ fn = "request"
    /\ fn' = "returned"
    /\ UNCHANGED <<arg, ret, rlVars, logVars, opVars, heapVars>>

\* the transport call fails: the catch block throws, waits, or falls out of the loop
ExecCatch ==
    /\ fn = "request"
    /\ \E client \in BOOLEAN, r \in 0..(RandomSteps - 1) :
        IF client /\ StopsOnClientError(ret.self)
        THEN fn' = "thrown" /\ ret' = ret
        ELSE IF ret.attempt < ret.self.retryCount - 1
        THEN /\ fn' = "wait"
             /\ ret' = [ret EXCEPT !.delay = BackoffDelay(ret.self, ret.attempt, r)]
        ELSE fn' = "thrown" /\ ret' = ret
    /\ UNCHANGED <<arg, rlVars, logVars, opVars, heapVars>>

\* the timer of the wait fires: attempt++ and the next transport call
ExecNextAttempt ==
    /\ fn = "wait"
    /\ ret.attempt + 1 < ret.self.retryCount
    /\ fn' = "request"
    /\ ret' = [ret EXCEPT !.attempt = ret.attempt + 1,
                          !.config = AxiosConfig(RequestOptions(ret.self))]
    /\ UNCHANGED <<arg, rlVars, logVars, opVars, heapVars>>

NextExec ==
    \/ ExecStart
    \/ ExecReturns
    \/ ExecCatch
    \/ ExecNextAttempt

SpecExec == InitExec /\ [][NextExec]_vars
----------------------------------------------------------------------------
(* C1: the number of requests granted by tryRequest whose grant time lies  *)
(* in a trailing window of windowMs never exceeds maxRequests, for any     *)
(* sequence of calls including reset().                                    *)
C1_AnyCalls == Len(InWindow(granted, now)) <= maxRequests

(* C1, amended: the number of requests granted since the most recent       *)
(* reset() whose grant time lies in a trailing window of windowMs never    *)
(* exceeds maxRequests.                                                    *)
C1_SinceReset == Len(InWindow(grantedSinceReset, now)) <= maxRequests

C1_Witness ==
    /\ Len(InWindow(grantedSinceReset, now)) = maxRequests
    /\ rlRet.call = "tryRequest"
    /\ ~rlRet.ok
    /\ now > 0
    /\ resets > 0

----------------------------------------------------------------------------
(* C2: every telemetry entry enqueued by log() on an enabled logger is      *)
(* eventually taken into a flush attempt (or discarded by disable()),       *)
(* whatever the timing of the 1-second timer relative to a flush in flight. *)
C2_EventuallyFlushed == (Len(pendingLogs) > 0) ~> (Len(pendingLogs) = 0)

----------------------------------------------------------------------------
\* the executor of the operation in progress has been entered
Entered == opPc \in {"inflight", "backoff"} \/ (opPc = "done" /\ Len(outcomes) > 0)

IsClientError(e) == e.status >= 400 /\ e.status < 500

CrudModules == {"Forms", "Contacts", "Audiences"}

\* every transport outcome of the operation so far was a retryable failure
AllRetryable == \A i \in DOMAIN outcomes : outcomes[i] = "retryable"

(* C3: in the Email module's executor a transport failure with status in    *)
(* [400,500) is not retried: the operation fails at once, after one         *)
(* transport attempt and no backoff wait when it is the first outcome.      *)
C3_EmailClientErrorNotRetried ==
    (op.module = "Email" /\ Len(outcomes) > 0 /\ outcomes[Len(outcomes)] = "client")
        => /\ opPc = "done"
           /\ (outcomes[1] = "client" => attempts = 1 /\ waits = 0)

(* C4: an operation of any module makes at least one and at most retryCount *)
(* transport attempts and at most retryCount - 1 backoff waits, each wait   *)
(* followed by an attempt, and once it has ended it has returned or raised. *)
C4_BoundedAttempts ==
    Entered =>
        /\ attempts >= 1
        /\ attempts <= retryCount
        /\ waits <= retryCount - 1
        /\ (opPc = "backoff" => waits = attempts /\ attempts < retryCount)
        /\ (opPc # "backoff" => waits = attempts - 1)
        /\ (opPc = "done" <=> result.kind # "none")

C4_Witness ==
    /\ opPc = "done"
    /\ retryCount >= 2
    /\ attempts = retryCount
    /\ waits = retryCount - 1
    /\ result.kind \in {"ApiError", "HttpError"}

(* C5: if the first k attempts of an operation fail with status >= 500 or   *)
(* with no status and attempt k+1 succeeds, the operation returns the       *)
(* success after exactly k+1 transport attempts and exactly k waits.        *)
C5_SuccessAfterRetries ==
    \A k \in 0..(retryCount - 1) :
        (/\ Len(outcomes) = k + 1
         /\ outcomes[k + 1] = "ok"
         /\ \A i \in 1..k : outcomes[i] = "retryable")
            => /\ opPc = "done"
               /\ result.kind = "returned"
               /\ attempts = k + 1
               /\ waits = k

C5_Witness ==
    /\ opPc = "done"
    /\ Len(outcomes) = 3
    /\ outcomes[1] = "retryable" /\ outcomes[2] = "retryable" /\ outcomes[3] = "ok"
    /\ result.kind = "returned"
    /\ waits = 2

(* C6: in Forms, Contacts and Audiences a failure with status in [400,500)  *)
(* on any attempt ends the operation at that attempt with an ApiError that  *)
(* carries that status and the remote message, with no further attempt and  *)
(* no backoff wait.                                                         *)
C6_ClientErrorEnds ==
    (op.module \in CrudModules /\ Len(outcomes) > 0 /\ outcomes[Len(outcomes)] = "client")
        => /\ opPc = "done"
           /\ result.kind = "ApiError"
           /\ result.status = lastError.status
           /\ IsClientError(lastError)
           /\ (lastError.hasMessage => result.message = DataMessage(lastError))
           /\ (~lastError.hasMessage /\ lastError.hasError
                  => result.message = DataError(lastError))
           /\ attempts = Len(outcomes)
           /\ waits = Len(outcomes) - 1

C6_Witness ==
    /\ op.module \in CrudModules
    /\ opPc = "done"
    /\ outcomes = <<"retryable", "client">>
    /\ result.kind = "ApiError"
    /\ result.status = 404
    /\ result.message = DataMessage(lastError)

\* all retryCount attempts of a Forms, Contacts or Audiences operation failed
Exhausted ==
    /\ op.module \in CrudModules
    /\ opPc = "done"
    /\ Len(outcomes) = retryCount
    /\ AllRetryable

GenericMessage == <<"Request failed after multiple attempts", 0>>

(* C7: when all retryCount attempts fail with retryable failures, Forms,    *)
(* Contacts and Audiences raise an ApiError carrying the last status and    *)
(* message observed across the attempts, and the generic message when no    *)
(* status was ever observed.                                                *)
C7_LastObserved ==
    Exhausted =>
        /\ result.kind = "ApiError"
        /\ (observed = NoError => result.message = GenericMessage)
        /\ (observed # NoError =>
              /\ result.status = observed.status
              /\ (observed.hasMessage => result.message = DataMessage(observed)))

(* C7, amended: the ApiError carries the status and the remote message      *)
(* (data.message) of the final attempt alone: status 0 and the generic      *)
(* message when the final attempt got no response, and the generic message  *)
(* whenever the final response has no message field.                        *)
C7_FinalAttempt ==
    Exhausted =>
        /\ result.kind = "ApiError"
        /\ result.status = lastError.status
        /\ result.message = IF lastError.hasMessage
                            THEN DataMessage(lastError)
                            ELSE GenericMessage

C7_Witness ==
    /\ Exhausted
    /\ retryCount >= 2
    /\ observed # NoError /\ observed.hasMessage
    /\ lastError.status = 0
    /\ result = Raised("ApiError", GenericMessage, 0)

(* C8: when the input checks of an operation fail, the client issues no     *)
(* HTTP request as a result of that call, then or later.                    *)
C8_NoRequestAtAll ==
    \A j \in rejected : \A r \in httpLog : r.call # j.call

(* C8, amended: when the input checks of an operation fail, no request is   *)
(* sent to the API on behalf of that call; the only HTTP request it can     *)
(* cause is the later POST to /api/logs of the /email/send/error entry      *)
(* that sendEmail enqueues while usage logging is enabled.                  *)
C8_OnlyTelemetry ==
    \A j \in rejected : \A r \in httpLog :
        r.call = j.call => (r.target = "logs" /\ j.sendEmail)

C8_Witness ==
    /\ \E j \in rejected :
        /\ j.sendEmail
        /\ [call |-> j.call, target |-> "logs"] \in httpLog
    /\ \E j \in rejected : ~j.sendEmail

(* C9: a failure of any public operation reaches the caller only as a       *)
(* ValidationError, an ApiError or a MetiganError, never as the raw         *)
(* transport envelope {status, data, message}.                              *)
C9_OnlyLibraryErrors ==
    opPc = "done" =>
        result.kind \in {"returned", "ValidationError", "ApiError", "MetiganError"}

\* what sendEmail returns or raises, from its input checks and the outcome of its
\* executor alone
SendEmailExpected ==
    IF op.check = "invalid" THEN Raised("MetiganError", <<"Invalid email data", 0>>, 0)
    ELSE IF op.check = "attachment"
    THEN Raised("MetiganError", <<"Attachment rejected", 0>>, 0)
    ELSE IF outcomes[Len(outcomes)] = "ok" THEN Returned("response")
    ELSE IF lastError.status = 0
    THEN Raised("MetiganError", <<"Failed to connect to the email service", 0>>, 0)
    ELSE IF lastError.hasError
    THEN Raised("MetiganError",
                IF lastError.hasMessage THEN DataMessage(lastError)
                ELSE DataError(lastError), 0)
    ELSE Raised("MetiganError", <<"Request failed with status", lastError.status>>, 0)

(* C10: whatever the telemetry request ends with, on any attempt, the flush *)
(* completes without raising, and what sendEmail returns or raises is what  *)
(* it returns or raises with logging disabled: it depends on the input      *)
(* checks and on the outcome of the send request alone.                     *)
C10_TelemetrySwallowed ==
    /\ flushResult # "rejected"
    /\ (opPc = "done" /\ op.kind = "sendEmail") => result = SendEmailExpected

C10_Witness ==
    /\ execResult = "threw"
    /\ flushResult = "resolved"
    /\ flushPc = "idle"
    /\ ~disabled
    /\ opPc = "done"
    /\ op.kind = "sendEmail"
    /\ result.kind = "returned"
    /\ [call |-> callId, target |-> "logs"] \in httpLog


----------------------------------------------------------------------------
(* The rate-limit gate of sendEmail and the objects of the client instances *)

\* the limiter object instance c holds
LimiterOf(c) == limiterHeap[clients[c].rateLimiter]

\* the instances whose sendEmail is rate limited
LimitedClients == {c \in EmailClients : clients[c].rateLimiter # NoObject}

C12_SendsPerWindow ==
    \A c \in LimitedClients :
        Len(InWindow(clients[c].proceeded, now)) <= LimiterOf(c).maxRequests

\* what an operation on instance c leaves alone: the limiter and the logger of
\* every other instance
OthersUntouched(c) ==
    \A d \in DOMAIN clients :
        d # c =>
            /\ clients'[d] = clients[d]
            /\ clients[d].rateLimiter # NoObject =>
                   limiterHeap'[clients[d].rateLimiter] = limiterHeap[clients[d].rateLimiter]
            /\ clients[d].logger # NoObject =>
                   loggerHeap'[clients[d].logger] = loggerHeap[clients[d].logger]

\* the gate decision of the last sendEmail of every instance follows from the
\* grants of that instance alone
OwnDecision ==
    \A c \in LimitedClients :
        clients[c].last.at >= 0 =>
            clients[c].last.passed = (clients[c].last.ownBefore < LimiterOf(c).maxRequests)

(* C13: no operation on one client instance changes the recorded rate-limit *)
(* timestamps or the pending telemetry queue of another instance, and the   *)
(* rate-limit decision of an instance depends on its own sends only.        *)
C13_InstancesIndependent ==
    [][OthersUntouched(arg'.client) /\ OwnDecision']_vars

\* two rate-limited instances, each holding a recorded timestamp and the second
\* let through after the first one filled its window; one of them has telemetry
\* pending
C13_Witness ==
    /\ Cardinality(LimitedClients) = 2
    /\ \A c \in LimitedClients :
        /\ Len(LimiterOf(c).requests) = LimiterOf(c).maxRequests
        /\ clients[c].last.passed /\ clients[c].last.at >= 0
    /\ \E c \in LimitedClients : loggerHeap[clients[c].logger].pendingLogs # <<>>

(* C18: a constructor called with an empty API key throws an error of the   *)
(* validation kind, and has created no module, rate limiter or logger.      *)
C18_EmptyKeyValidationError ==
    (fn = "constructor" /\ arg.apiKey = 0) =>
        /\ ret.kind = "ValidationError"
        /\ ret.created = {}

----------------------------------------------------------------------------
(* The payloads of the send operations                                      *)

\* the address and subject strings of a transmitted payload
HeaderStrings(payload) ==
    {payload.from, payload.subject}
    \cup (IF "recipients" \in DOMAIN payload
          THEN Range(payload.recipients) \cup Range(payload.cc) \cup Range(payload.bcc)
               \cup {payload.replyTo}
          ELSE {payload.to, payload.email})

HasLineBreak(s) == \E i \in DOMAIN s : s[i] \in {CR, LF}

(* C14: no sender, recipient (recipients, to, email), cc, bcc or reply-to   *)
(* address and no subject of a payload transmitted by sendEmail, sendOtp or *)
(* sendTransactional contains a CR or LF character.                         *)
C14_NoLineBreakInHeaders ==
    (fn \in {"sendEmail", "sendOtp", "sendTransactional"} /\ ret.outcome.kind = "sent") =>
        \A s \in HeaderStrings(ret.outcome.payload) : ~HasLineBreak(s)

\* the extension of a file name, from its last dot on, in lower case
ExtensionOf(filename) ==
    IF Positions(filename, ".") = {} THEN <<>>
    ELSE ToLowerCase(SubSeq(filename, LastIndexOf(filename, ".") + 1, Len(filename)))

\* the options with every attachment declared as mimetype
DeclaredAs(options, mimetype) ==
    [options EXCEPT !.attachments =
        [n \in DOMAIN options.attachments |->
            [options.attachments[n] EXCEPT !.mimetype = mimetype]]]

(* C15: sendEmail refuses, before any request, every attachment whose       *)
(* lower-cased extension is a dangerous one, whatever its declared MIME     *)
(* type and its shape, and the declared MIME types change nothing in what   *)
(* it accepts and refuses.                                                  *)
C15_ExtensionIsTheGate ==
    fn = "sendEmail" =>
        /\ (\E n \in DOMAIN arg.options.attachments :
                ExtensionOf(arg.options.attachments[n].filename) \in DANGEROUS_EXTENSIONS)
           => ret.outcome.kind # "sent"
        /\ \A mimetype \in MimeTypes :
               LET other == SendEmailRequest(DeclaredAs(arg.options, mimetype), arg.env)
               IN  /\ other.kind = ret.outcome.kind
                   /\ other.kind # "sent" => other = ret.outcome

\* the first attachment above the size limit
FirstOversize(attachments) ==
    attachments[Min({n \in DOMAIN attachments : attachments[n].size > MAX_FILE_SIZE})]

(* C16: with a FormData body as with a JSON body, sendEmail transmits no    *)
(* attachment larger than 7,340,032 bytes, and when nothing else is wrong   *)
(* with the call it throws the size error naming the first such file.       *)
C16_SizeCeiling ==
    (fn = "sendEmail" /\ arg.options.attachments # <<>>) =>
        LET attachments == arg.options.attachments
            oversize == \E n \in DOMAIN attachments : attachments[n].size > MAX_FILE_SIZE
        IN  /\ ret.outcome.kind = "sent" => ~oversize
            /\ (/\ oversize
                /\ ret.outcome.message \notin
                       {"Invalid attachment format",
                        "File extension not allowed for security reasons",
                        "In browser environments, attachments must be File objects",
                        "An unexpected error occurred while sending email"})
               => /\ ret.outcome.message = "exceeds the maximum size of 7MB"
                  /\ ret.outcome.file = FirstOversize(attachments).filename

----------------------------------------------------------------------------
(* The sanitizers and the e-mail shape check                                *)

(* C17: sanitizeEmail and sanitizeSubject are idempotent: applied to their  *)
(* own output they return it unchanged, subjects longer than 998            *)
(* characters included.                                                     *)
C17_SanitizersIdempotent ==
    (fn \in {"sanitizeEmail", "sanitizeSubject"} /\ Len(ret) = 2) => ret[2] = ret[1]

\* the shape the specification describes: exactly one '@', something before it,
\* and after it a domain with a dot and no empty label
ShapeOk(s) ==
    /\ Cardinality(Positions(s, "@")) = 1
    /\ LET at == CHOOSE i \in Positions(s, "@") : TRUE
           domain == SubSeq(s, at + 1, Len(s))
       IN  /\ at > 1
           /\ Positions(domain, ".") # {}
           /\ domain[1] # "."
           /\ domain[Len(domain)] # "."
           /\ \A i \in 1..(Len(domain) - 1) : ~(domain[i] = "." /\ domain[i + 1] = ".")

(* C19: the shape check of the Email module and the one of the Contacts     *)
(* module return true exactly for the strings with one '@', a non-empty     *)
(* local part and a domain with at least one '.' and no empty label, and    *)
(* they agree on every string.                                              *)
C19_ShapeCheck ==
    /\ fn = "_validateEmail" => ret[1] = ShapeOk(arg)
    /\ fn = "validateEmail" => (ret[2] = ShapeOk(arg) /\ ret[2] = ret[1])

\* both copies have accepted a well-shaped address
C19_Witness ==
    fn = "validateEmail" /\ ret = <<TRUE, TRUE>> /\ ShapeOk(arg)

\* s holds an opening tag of a denylisted element: '<', the element's name in any
\* letter case, then the end of the name and, somewhere after it, a '>'
HasDenylistedOpeningTag(s) ==
    \E n \in DOMAIN DANGEROUS_TAGS, i \in 1..Len(s) :
        LET after == i + Len(DANGEROUS_TAGS[n]) + 1
        IN  /\ MatchesAt(s, i, <<"<">> \o DANGEROUS_TAGS[n])
            /\ after <= Len(s)
            /\ s[after] \in WhiteSpace \cup {"/", ">"}
            /\ \E j \in after..Len(s) : s[j] = ">"

\* s holds no '<' followed by the name of a denylisted element
NoDenylistedName(s) ==
    \A n \in DOMAIN DANGEROUS_TAGS, i \in 1..Len(s) :
        ~MatchesAt(s, i, <<"<">> \o DANGEROUS_TAGS[n])

(* C20: the output of sanitizeHtml holds no opening tag of a denylisted     *)
(* element, in any letter case, and markup that names no denylisted element *)
(* comes out unchanged.                                                     *)
C20_NoDenylistedTagLeft ==
    fn = "sanitizeHtml" =>
        /\ ~HasDenylistedOpeningTag(ret[1])
        /\ NoDenylistedName(arg) => ret[1] = arg

----------------------------------------------------------------------------
(* The errors an operation raises                                           *)

(* C21: when the response of the failing attempt carries a message supplied *)
(* by the remote side, the error the operation raises has exactly that      *)
(* message, in every module.                                                *)
C21_RemoteMessageKept ==
    (/\ opPc = "done"
     /\ result.kind \notin {"none", "returned"}
     /\ lastError # NoError
     /\ lastError.hasMessage)
        => result.message = DataMessage(lastError)

----------------------------------------------------------------------------
(* Timeouts and backoff waits                                               *)

(* C22: every transport call of a module instance is given the timeout      *)
(* configured for that instance, 30000 ms when none was configured.         *)
C22_ConfiguredTimeout ==
    fn \in {"request", "wait", "returned", "thrown"} =>
        ret.config.timeout = (IF arg.timeout = 0 THEN 30000 ELSE arg.timeout)

(* C27: the wait after the failed attempt a is exactly retryDelay * 2^a in  *)
(* Forms, Contacts, Audiences and Templates, and within 50% of it in the    *)
(* Email module.                                                            *)
C27_BackoffDelay ==
    fn = "wait" =>
        LET base == ret.self.retryDelay * Pow2(ret.attempt)
            d == ret.delay
        IN  IF ret.self.module = "Email"
            THEN 2 * d.num >= base * d.den /\ 2 * d.num <= 3 * base * d.den
            ELSE d.num = base * d.den

----------------------------------------------------------------------------
(* Debug mode                                                               *)

(* C23: the debug state of a client is the one its own debug option and its *)
(* own enableDebug() / disableDebug() calls give it, whatever other clients *)
(* were built before it or toggled after it.                                *)
C23_OwnDebugState ==
    \A c \in DOMAIN clients :
        clients[c].logger # NoObject => debugLogger.enabled = clients[c].ownDebug

----------------------------------------------------------------------------
(* The batch flush of the usage logger                                      *)

\* this step is a processBatch() that passed its guard: the timer has fired, the
\* logger is enabled, and the pending entries have left the queue and become the batch being sent
FlushStarts ==
    /\ timerArmed /\ ~timerArmed'
    /\ ~disabled /\ ~disabled'
    /\ pendingLogs # <<>> /\ pendingLogs' = <<>>
    /\ logBatch' = pendingLogs
    /\ flushPc' = "sending" /\ flushAttempt' = 0

\* a flush is in progress: processBatch() has passed its guard and its HTTP send,
\* retries included, has not finished
FlushInProgress == flushPc # "idle"

(* C24: for any interleaving of log(), timer firings, flush completions,    *)
(* enable() and disable() on one usage logger, no batch flush starts while  *)
(* another is in progress, and the in-progress flag is set exactly while a  *)
(* flush is in progress.                                                    *)
C24_OneFlushAtATime ==
    [][/\ FlushStarts => ~FlushInProgress
       /\ isBatchProcessing' = FlushInProgress']_vars

\* a timer has fired while a flush was in progress and was turned away by the
\* guard: its handle is still set, entries logged during the flush wait in the queue
C24_Witness ==
    /\ FlushInProgress /\ isBatchProcessing
    /\ batchTimeout /\ ~timerArmed
    /\ pendingLogs # <<>>
    /\ ~disabled

(* C28: a flush takes the whole pending queue, in order, and empties it in  *)
(* the same step; while it is in progress its batch does not change, and    *)
(* entries enqueued meanwhile stay in the queue; when it ends its entries   *)
(* are dropped, never enqueued again, so no entry is in two batches.        *)
C28_BatchTakenWhole ==
    [][/\ (~FlushInProgress /\ FlushInProgress') =>
             /\ pendingLogs # <<>>
             /\ logBatch' = pendingLogs
             /\ pendingLogs' = <<>>
       /\ (FlushInProgress /\ FlushInProgress') =>
             /\ logBatch' = logBatch
             /\ \/ pendingLogs' = pendingLogs
                \/ Len(pendingLogs') = Len(pendingLogs) + 1
                     /\ SubSeq(pendingLogs', 1, Len(pendingLogs)) = pendingLogs
                \/ disabled' /\ pendingLogs' = <<>>
       /\ (FlushInProgress /\ ~FlushInProgress') =>
             /\ logBatch' = <<>>
             /\ pendingLogs' = pendingLogs]_vars

\* a flush is in progress with two entries in its batch, and an entry logged
\* after it started waits in the queue
C28_Witness ==
    /\ FlushInProgress
    /\ Len(logBatch) = 2
    /\ Len(pendingLogs) = 1
    /\ logCount = 3

(* C29: whenever the usage logger is disabled its pending queue is empty    *)
(* and no flush timer is scheduled; log() while disabled enqueues nothing,  *)
(* and no flush starts until enable() is called.                            *)
C29_DisabledIsIdle ==
    /\ [](disabled => (pendingLogs = <<>> /\ ~timerArmed /\ ~batchTimeout))
    /\ [][(~FlushInProgress /\ FlushInProgress') => (~disabled /\ ~disabled')]_vars

\* the logger was disabled while a flush was in progress and entries had been
\* logged: the queue and the timer are gone, the flush goes on
C29_Witness ==
    /\ disabled
    /\ FlushInProgress
    /\ logCount >= 2
    /\ pendingLogs = <<>>

----------------------------------------------------------------------------
(* Concurrent calls at the rate-limit gate                                  *)

\* the calls that were granted a slot
GrantedCalls == {i \in DOMAIN calls : calls[i].at >= 0}

(* C25: for concurrent sendEmail calls on one rate-limited instance, with   *)
(* no resetRateLimit, no call is suspended between the check and the record *)
(* of the gate, and no window holds more granted calls than maxRequests: no *)
(* two calls are both granted the last free slot.                           *)
C25_GateIsAtomic ==
    /\ running = 0 => \A i \in DOMAIN calls : Suspends(calls[i].pc) \/ Settled(calls[i].pc)
    /\ \A j \in GrantedCalls :
        Cardinality({i \in GrantedCalls :
                        /\ calls[i].client = calls[j].client
                        /\ calls[i].at <= calls[j].at
                        /\ calls[j].at - calls[i].at < windowMs})
            <= LimiterOf(calls[j].client).maxRequests

\* a call was refused while the call that holds the last slot of the window is
\* still in flight
C25_Witness ==
    \E i, j \in DOMAIN calls :
        /\ calls[i].pc = "inflight" /\ calls[i].at >= 0
        /\ calls[j].pc = "thrown" /\ calls[j].at = -1
        /\ j > i
        /\ Len(LimiterOf(calls[i].client).requests) = LimiterOf(calls[i].client).maxRequests

----------------------------------------------------------------------------
(* The order of the attempts of one operation                               *)

\* the transport calls of the current operation that have been issued and have
\* not completed
AttemptsInFlight == attempts - Len(outcomes)

(* C26: within one operation, an attempt after the first starts only when   *)
(* the attempt before it has completed with a failure and the backoff wait  *)
(* that followed has elapsed; at no time are two attempts of the operation  *)
(* in flight.                                                               *)
C26_AttemptsInSequence ==
    /\ [](AttemptsInFlight = IF opPc = "inflight" THEN 1 ELSE 0)
    /\ [][attempt' = attempt + 1 =>
             /\ opPc = "backoff" /\ opPc' = "inflight"
             /\ Len(outcomes) = attempts
             /\ outcomes[attempts] # "ok"
             /\ waits = attempts
             /\ attempts' = attempts + 1]_vars

\* the third attempt of a Templates operation is in flight, after two failed
\* attempts and two waits
C26_Witness ==
    /\ op.module = "Templates"
    /\ opPc = "inflight"
    /\ attempt = 2
    /\ outcomes = <<"retryable", "retryable">>
    /\ waits = 2

----------------------------------------------------------------------------
(* The rate-limit gate and the validation of sendEmail                      *)

(* C30: a sendEmail that passes the rate-limit gate records exactly one     *)
(* timestamp, whether or not validation then rejects the call; a sendEmail  *)
(* refused by the rate limiter records none.                                *)
C30_GateRecordsOnce ==
    [][(fn' = "sendEmail" /\ sends' = sends + 1 /\ arg'.client \in LimitedClients) =>
          LET c == arg'.client
              old == Prune(LimiterOf(c).requests, now)
              new == limiterHeap'[clients[c].rateLimiter].requests
          IN  IF clients'[c].last.passed
              THEN new = Append(old, now)
              ELSE new = old /\ ~clients'[c].last.proceeded]_vars

\* a sendEmail refused by the limiter although no send of the window went on to
\* the API: the quota was used up by calls that validation rejected
C30_Witness ==
    /\ fn = "sendEmail"
    /\ \E c \in LimitedClients :
        /\ arg.client = c
        /\ ~clients[c].last.passed
        /\ clients[c].proceeded = <<>>
        /\ Len(InWindow(LimiterOf(c).requests, now)) = LimiterOf(c).maxRequests
====
